---- MODULE Spec2Model ----
(***************************************************************************)
(* Redis-backed distributed types (crate dtypes, module redis): the        *)
(* server-side Lua scripts and the client handles that invoke them.        *)
(* Every script runs atomically at the server, so one script invocation    *)
(* together with the client code that consumes its reply is one action.    *)
(*                                                                         *)
(* Strings.  Redis stores strings; the clients send integers (tokens,      *)
(* ordering numbers, JSON numbers) in decimal.  A string is modelled as    *)
(* the sequence of its decimal digits; the empty sequence stands for an    *)
(* absent key / a nil reply.                                               *)
(*                                                                         *)
(* Time.  A key written with EX carries its remaining time to live in      *)
(* ticks of one second; a Tick action lets one second pass and removes     *)
(* the keys whose time is up.                                              *)
(***************************************************************************)
EXTENDS Integers, Sequences, FiniteSets, TLC

(* ---------------------------------------------------------------- bounds *)
NumMutex == 2           \* Mutex handles on the key
NumValues == 2          \* payloads are the integers 1..NumValues
NumRw == 2              \* RwLock clients (guards being taken) on the key
MaxRwToken == 3         \* read()/write() calls in all (K:lock_counter)
MaxCalls == 6           \* the same where every call ends in a panic
RwTimeout == 2          \* seconds, the scripts' timeout argument
MaxGenerations == 2      \* generations of barrier handles on one key
NumParties == 3         \* Barrier handles on the key, each built with num = NumParties
NumSetLoad == 2         \* SetLoad handles on the key
MaxCounter == 3         \* largest ordering number a SetLoad handle sends
MaxDigitsCounter == 100 \* the same, where two handles run into two-digit orders
NumKeys == 2            \* keys that Generic cells are bound to
NumCells == 2           \* Generic handles
NumLists == 2           \* List handles on the key
MaxListLen == 3         \* longest list the handles build

Nil == << >>
None == << >>
Some(v) == <<v>>
Values == 1..NumValues

(* usize::to_string / ToRedisArgs for integers / serde_json::to_string of  *)
(* an integer: the decimal digits, most significant first.                 *)
RECURSIVE DecStr(_)
DecStr(n) == IF n < 10 THEN <<n>> ELSE Append(DecStr(n \div 10), n % 10)

(* FromRedisValue for usize / serde_json::from_str of an integer.          *)
RECURSIVE StrNum(_)
StrNum(s) == IF Len(s) = 0 THEN 0
             ELSE StrNum(SubSeq(s, 1, Len(s) - 1)) * 10 + s[Len(s)]

(* A key with an expiry: its value and the seconds it still lives.         *)
AbsentKey == [val |-> Nil, ttl |-> 0]
SetEx(v, ttl) == [val |-> v, ttl |-> ttl]
Exists(k) == k.val # Nil
(* One second passes for a key that carries a TTL.                         *)
Age(k) == IF k.ttl = 0 THEN k
          ELSE IF k.ttl = 1 THEN AbsentKey
          ELSE [k EXCEPT !.ttl = @ - 1]

VARIABLES
    mxUuids,    \* K:uuids, the token counter (0: key absent)
    mxLock,     \* K:lock, [val, ttl]
    mxValue,    \* K, the serialized value
    mxPc,       \* per handle: "none", "idle", "locking", "guard", "leaked"
    mxUuid,     \* per handle: Mutex.uuid
    mxCache,    \* per handle: Mutex.data.cache
    mxExpanded, \* per handle: Guard.expanded (FALSE while there is no guard)
    mxRes       \* per handle: outcome of the live guard's last store

VARIABLES
    rwCounter,  \* K:lock_counter (0: key absent)
    rwLock,     \* K:lock, [val, ttl]
    rwReaders,  \* token -> remaining TTL of K:reader_locks:<token> (0: absent)
    rwIntents,  \* token -> remaining TTL of K:writer_waiting_list:<token>
    rwValue,    \* K, the serialized value
    rwPc,       \* per client: "idle", "reading", "rguard", "writing", "wguard",
                \* "panicked" (its call ended in a panic)
    rwUuid,     \* per client: the uuid of its read()/write() call or guard (0: none)
    rwCache,    \* per client: RwLock.data.cache
    rwRes,      \* per client: outcome of the live guard's last store
    rwGot       \* per client: what the live guard's last acquire returned
                \* (0: none yet, -1: no value, the unwrap panicked)

VARIABLES
    baUuids,    \* K:uuids (0: key absent)
    baLeader,   \* K:leader, [val, ttl]
    baWaiting,  \* token -> remaining TTL of K:waiting:<token> (0: absent)
    baPc,       \* per handle: "none", "created", "waiting", "returned", "dropped"
    baUuid,     \* per handle: Barrier.uuid
    baRes,      \* per handle: what wait() returned: "none", "leader", "follower"
    baQuorum,   \* history: NumParties waiting keys have been present at once
    baGen,      \* history: which generation of handles this is, from 1
    baNum       \* per handle: Barrier.num, 0 before Barrier::new

VARIABLES
    slOrder,    \* K:order, the ordering number as stored (a string)
    slValue,    \* K, the serialized value
    slPc,       \* per handle: "none", "idle", "blocking" (inside store_blocking)
    slCounter,  \* per handle: SetLoad.counter
    slCache,    \* per handle: SetLoad.data.cache
    slVal,      \* per handle: val, the argument of a store_blocking in its loop
    slRes       \* per handle: what its latest call returned ("none": no Result)

VARIABLES
    gvStore,    \* key -> the string stored under the key (Nil: absent)
    gvPc,       \* per handle: "none", "defaulting" (with_value_default between
                \* its read and its store), "live", "consumed"
    gvKey,      \* per handle: Generic.key (0: no handle yet)
    gvCache,    \* per handle: Generic.cache
    gvArg,      \* per handle: value, the argument of a with_value_default
                \* that has read and not yet stored (0: none)
    gvRes,      \* per handle: how its latest call ended: "none", "Ok",
                \* "panic" (unwrap / expect of a None)
    gvRet       \* per handle: what into_inner returned

VARIABLES
    liServer,   \* the list under K at the server: a sequence of strings
    liRet,      \* per handle: its latest call and what it returned,
                \* [op, val]; val is None or Some(value), Some(n) for
                \* len; op "panic" when the call panicked
    lcCache     \* per handle: ListCache.cache (front first)

mxVars == <<mxUuids, mxLock, mxValue, mxPc, mxUuid, mxCache, mxExpanded, mxRes>>
rwVars == <<rwCounter, rwLock, rwReaders, rwIntents, rwValue, rwPc, rwUuid,
            rwCache, rwRes, rwGot>>
baVars == <<baUuids, baLeader, baWaiting, baPc, baUuid, baRes, baQuorum, baGen,
            baNum>>
slVars == <<slOrder, slValue, slPc, slCounter, slCache, slVal, slRes>>
gvVars == <<gvStore, gvPc, gvKey, gvCache, gvArg, gvRes, gvRet>>
liVars == <<liServer, liRet, lcCache>>
vars == <<mxVars, rwVars, baVars, slVars, gvVars, liVars>>
mxOthers == <<rwVars, baVars, slVars, gvVars, liVars>>
rwOthers == <<mxVars, baVars, slVars, gvVars, liVars>>
baOthers == <<mxVars, rwVars, slVars, gvVars, liVars>>
slOthers == <<mxVars, rwVars, baVars, gvVars, liVars>>
gvOthers == <<mxVars, rwVars, baVars, slVars, liVars>>
liOthers == <<mxVars, rwVars, baVars, slVars, gvVars>>

(* ================================================================ Mutex *)
MxHandles == 1..NumMutex
MutexLockTtl == 1       \* lock(): .arg(1), seconds
MutexExpandTtl == 2     \* expand(): expire(K:lock, 2)

(* Mutant: the lock is written with SET, without a time to live.           *)
LOCK_SCRIPT_NoExpiry(lock, timeout, uuid) ==
    IF lock.val = Nil \/ lock.val = uuid
    THEN [ret |-> 1, lock |-> SetEx(uuid, 0)]
    ELSE [ret |-> 0, lock |-> lock]

(* Mutant: the lock is taken without looking at the current holder.        *)
LOCK_SCRIPT_Unchecked(lock, timeout, uuid) ==
    [ret |-> 1, lock |-> SetEx(uuid, timeout)]

(* Mutant: the holder's own token is refused like any other.               *)
LOCK_SCRIPT_NoRenew(lock, timeout, uuid) ==
    IF lock.val = Nil
    THEN [ret |-> 1, lock |-> SetEx(uuid, timeout)]
    ELSE [ret |-> 0, lock |-> lock]

(* LOCK_SCRIPT(key, timeout, uuid): reply and the new K:lock.              *)
LOCK_SCRIPT(lock, timeout, uuid) ==
    IF lock.val = Nil \/ lock.val = uuid
    THEN [ret |-> 1, lock |-> SetEx(uuid, timeout)]
    ELSE [ret |-> 0, lock |-> lock]

(* Mutant: the drop deletes K:lock whoever holds it.                       *)
DROP_SCRIPT_Unchecked(lock, uuid) == [ret |-> 1, lock |-> AbsentKey]

(* DROP_SCRIPT(key, uuid): compare and delete.                             *)
DROP_SCRIPT(lock, uuid) ==
    IF lock.val = uuid
    THEN [ret |-> 1, lock |-> AbsentKey]
    ELSE [ret |-> 0, lock |-> lock]

(* UUID_SCRIPT(key): incr K:uuids, reply with its new value.               *)
UUID_SCRIPT(uuids) == [ret |-> uuids + 1, uuids |-> uuids + 1]

(* Mutant: the store does not compare the token.                           *)
STORE_SCRIPT_Unchecked(lock, value, uuid, v) ==
    [ret |-> 1, value |-> v]

(* STORE_SCRIPT(key, uuid, value): write K only under the caller's lock.   *)
STORE_SCRIPT(lock, value, uuid, v) ==
    IF lock.val = uuid
    THEN [ret |-> 1, value |-> v]
    ELSE [ret |-> 0, value |-> value]

(* LOAD_SCRIPT(key, uuid): K under the caller's lock, nil otherwise.       *)
MUTEX_LOAD_SCRIPT(lock, value, uuid) ==
    IF lock.val = uuid THEN value ELSE Nil

(* Mutex::new: draw the token.                                             *)
MutexNew(h) ==
    /\ mxPc[h] = "none"
    /\ LET r == UUID_SCRIPT(mxUuids) IN
        /\ mxUuids' = r.uuids
        /\ mxUuid' = [mxUuid EXCEPT ![h] = r.ret]
    /\ mxPc' = [mxPc EXCEPT ![h] = "idle"]
    /\ UNCHANGED <<mxLock, mxValue, mxCache, mxExpanded, mxRes>>
    /\ UNCHANGED mxOthers

(* Mutex::lock: one iteration of the spin loop; the guard exists once the  *)
(* script replied 1.                                                       *)
MutexLock(h) ==
    /\ mxPc[h] \in {"idle", "locking"}
    /\ LET r == LOCK_SCRIPT(mxLock, MutexLockTtl, DecStr(mxUuid[h])) IN
        /\ mxLock' = r.lock
        /\ mxPc' = [mxPc EXCEPT ![h] = IF r.ret = 1 THEN "guard" ELSE "locking"]
        /\ mxExpanded' = [mxExpanded EXCEPT ![h] = FALSE]
    /\ UNCHANGED <<mxUuids, mxValue, mxUuid, mxCache, mxRes>>
    /\ UNCHANGED mxOthers

(* Guard::store.                                                           *)
GuardStore(h, v) ==
    /\ mxPc[h] = "guard"
    /\ LET r == STORE_SCRIPT(mxLock, mxValue, DecStr(mxUuid[h]), DecStr(v)) IN
        /\ mxValue' = r.value
        /\ IF r.ret = 0
           THEN /\ mxRes' = [mxRes EXCEPT ![h] = "LockExpired"]
                /\ UNCHANGED mxCache
           ELSE /\ mxRes' = [mxRes EXCEPT ![h] = "Ok"]
                /\ mxCache' = [mxCache EXCEPT ![h] = Some(v)]
    /\ UNCHANGED <<mxUuids, mxLock, mxPc, mxUuid, mxExpanded>>
    /\ UNCHANGED mxOthers

(* Mutant: expand sends its EXPIRE on every call.                           *)
GuardExpand_Always(h) ==
    /\ mxPc[h] = "guard"
    /\ mxLock' = IF Exists(mxLock)
                 THEN [mxLock EXCEPT !.ttl = MutexExpandTtl]
                 ELSE mxLock
    /\ mxExpanded' = [mxExpanded EXCEPT ![h] = TRUE]
    /\ UNCHANGED <<mxUuids, mxValue, mxPc, mxUuid, mxCache, mxRes>>
    /\ UNCHANGED mxOthers

(* Guard::expand: EXPIRE K:lock 2, once per guard.                         *)
GuardExpand(h) ==
    /\ mxPc[h] = "guard"
    /\ IF mxExpanded[h]
       THEN UNCHANGED <<mxLock, mxExpanded>>
       ELSE /\ mxLock' = IF Exists(mxLock)
                         THEN [mxLock EXCEPT !.ttl = MutexExpandTtl]
                         ELSE mxLock
            /\ mxExpanded' = [mxExpanded EXCEPT ![h] = TRUE]
    /\ UNCHANGED <<mxUuids, mxValue, mxPc, mxUuid, mxCache, mxRes>>
    /\ UNCHANGED mxOthers

(* Drop for Guard.                                                         *)
GuardDrop(h) ==
    /\ mxPc[h] = "guard"
    /\ mxLock' = DROP_SCRIPT(mxLock, DecStr(mxUuid[h])).lock
    /\ mxPc' = [mxPc EXCEPT ![h] = "idle"]
    /\ mxExpanded' = [mxExpanded EXCEPT ![h] = FALSE]
    /\ mxRes' = [mxRes EXCEPT ![h] = "none"]
    /\ UNCHANGED <<mxUuids, mxValue, mxUuid, mxCache>>
    /\ UNCHANGED mxOthers

(* One second passes at the server.                                        *)
MutexTick ==
    /\ mxLock.ttl > 0
    /\ mxLock' = Age(mxLock)
    /\ UNCHANGED <<mxUuids, mxValue, mxPc, mxUuid, mxCache, mxExpanded, mxRes>>
    /\ UNCHANGED mxOthers

MutexInit ==
    /\ mxUuids = 0
    /\ mxLock = AbsentKey
    /\ mxValue = Nil
    /\ mxPc = [h \in MxHandles |-> "none"]
    /\ mxUuid = [h \in MxHandles |-> 0]
    /\ mxCache = [h \in MxHandles |-> None]
    /\ mxExpanded = [h \in MxHandles |-> FALSE]
    /\ mxRes = [h \in MxHandles |-> "none"]

MutexNext ==
    \/ \E h \in MxHandles : MutexNew(h)
    \/ \E h \in MxHandles : MutexLock(h)
    \/ \E h \in MxHandles, v \in Values : GuardStore(h, v)
    \/ \E h \in MxHandles : GuardExpand(h)
    \/ \E h \in MxHandles : GuardDrop(h)
    \/ MutexTick

(* The guard is never dropped: its holder crashed, or forgot the guard      *)
(* (mem::forget, ManuallyDrop), so that DROP_SCRIPT does not run.           *)
GuardLeak(h) ==
    /\ mxPc[h] = "guard"
    /\ mxPc' = [mxPc EXCEPT ![h] = "leaked"]
    /\ UNCHANGED <<mxUuids, mxLock, mxValue, mxUuid, mxCache, mxExpanded, mxRes>>
    /\ UNCHANGED mxOthers

(* lock() past its first call of the script: one more turn of the spin      *)
(* loop.                                                                    *)
MutexSpin(h) == mxPc[h] = "locking" /\ MutexLock(h)

(* The lock protocol alone, with guards that are never dropped.             *)
MutexLiveNext ==
    \/ \E h \in MxHandles : MutexNew(h)
    \/ \E h \in MxHandles : MutexLock(h)
    \/ \E h \in MxHandles : GuardExpand(h)
    \/ \E h \in MxHandles : GuardDrop(h)
    \/ \E h \in MxHandles : GuardLeak(h)
    \/ MutexTick

(* Time passes; a handle inside lock() keeps calling the script, and a      *)
(* handle that keeps calling it is not missed for ever by a lock that is    *)
(* free again and again.                                                    *)
MutexFairness ==
    /\ WF_vars(MutexTick)
    /\ \A h \in MxHandles : WF_vars(MutexSpin(h))
    /\ \A h \in MxHandles : SF_vars(MutexSpin(h) /\ mxPc'[h] = "guard")

(* =============================================================== RwLock *)
(* The lock scripts read the timeout of the keys they write from their      *)
(* third argument.  RwLock::execute_script sends the key and the uuid       *)
(* only, so that ARGV[3] is nil and the SET / SETEX that uses it is an      *)
(* error reply, on which execute_script panics: with the calls as written   *)
(* no guard is ever taken (SpecRwLockCalled).  SpecRwLock and               *)
(* SpecRwLockLoad are the protocol with the third argument the scripts      *)
(* document, RwTimeout seconds.                                             *)
ExecuteScriptArg3 == 0  \* stands for the nil ARGV[3] of execute_script
RwClients == 1..NumRw
RwTokens == 1..MaxRwToken
RwKeys(m) == {u \in RwTokens : m[u] > 0}
RwAge(m) == [u \in RwTokens |-> IF m[u] > 0 THEN m[u] - 1 ELSE 0]

(* SCAN 0 MATCH pattern, called once: the reply holds the matching keys of  *)
(* the first page of the keyspace only (COUNT defaults to 10 buckets), so   *)
(* it is some subset of the keys that match; which one depends on the other *)
(* keys of the database.                                                    *)
ScanFirstPage(matching) == SUBSET matching

(* READER_LOCK(key, uuid, timeout), given the reply of its SCAN.            *)
(* ret -1: the script failed, redis.call got nil for an argument.           *)
READER_LOCK(lock, readers, page, uuid, timeout) ==
    IF Exists(lock)
    THEN [ret |-> 0, readers |-> readers]
    ELSE IF page = {}
         THEN IF timeout = ExecuteScriptArg3
              THEN [ret |-> -1, readers |-> readers]
              ELSE [ret |-> 1, readers |-> [readers EXCEPT ![uuid] = timeout]]
         ELSE [ret |-> 0, readers |-> readers]

(* READER_LOCK_DROP(key, uuid).                                             *)
READER_LOCK_DROP(readers, uuid) == [readers EXCEPT ![uuid] = 0]

(* Mutant: the writer takes K:lock whether or not it is held.               *)
WRITER_LOCK_Overwrite(lock, intents, uuid, timeout) ==
    [ret |-> 1,
     intents |-> [intents EXCEPT ![uuid] = timeout],
     lock |-> SetEx(DecStr(uuid), timeout)]

(* WRITER_LOCK(key, uuid, timeout): register the intent, then SET NX EX.    *)
WRITER_LOCK(lock, intents, uuid, timeout) ==
    LET waiting == [intents EXCEPT ![uuid] = timeout] IN
    IF timeout = ExecuteScriptArg3
    THEN [ret |-> -1, intents |-> intents, lock |-> lock]
    ELSE IF Exists(lock)
    THEN [ret |-> 0, intents |-> waiting, lock |-> lock]
    ELSE [ret |-> 1, intents |-> waiting, lock |-> SetEx(DecStr(uuid), timeout)]

(* Mutant: the writer's drop deletes K:lock whoever holds it.               *)
WRITER_LOCK_DROP_Unchecked(lock, intents, uuid) ==
    [intents |-> [intents EXCEPT ![uuid] = 0], lock |-> AbsentKey]

(* WRITER_LOCK_DROP(key, uuid).                                             *)
WRITER_LOCK_DROP(lock, intents, uuid) ==
    [intents |-> [intents EXCEPT ![uuid] = 0],
     lock |-> IF lock.val = DecStr(uuid) THEN AbsentKey ELSE lock]

(* UUID_SCRIPT(key): INCR K:lock_counter.                                   *)
RW_UUID_SCRIPT(counter) == [ret |-> counter + 1, counter |-> counter + 1]

(* Mutant: the store does not compare the token.                            *)
RW_STORE_SCRIPT_Unchecked(lock, value, uuid, v) ==
    [ret |-> 1, value |-> v]

(* STORE_SCRIPT(key, uuid, value).                                          *)
RW_STORE_SCRIPT(lock, value, uuid, v) ==
    IF lock.val = DecStr(uuid)
    THEN [ret |-> 1, value |-> v]
    ELSE [ret |-> 0, value |-> value]

(* In a Lua condition only nil and false are false: the integer reply of    *)
(* EXISTS, 0 or 1, is true.                                                 *)
LuaTrue(n) == n \in Int

(* LOAD_SCRIPT(key, uuid): the reply is GET key, or nil when the script     *)
(* runs off its end.                                                        *)
RW_LOAD_SCRIPT(lock, readers, value, uuid) ==
    IF lock.val = DecStr(uuid) THEN value
    ELSE IF LuaTrue(IF readers[uuid] > 0 THEN 1 ELSE 0) THEN value
    ELSE Nil

(* RwLock::read, first part: generate_uuid.  writer_wanted is set only      *)
(* inside write(&mut self), so it is false whenever read(&self) runs.       *)
RwReadBegin(c, cap) ==
    /\ rwPc[c] \in {"idle", "panicked"}
    /\ rwCounter < cap
    /\ LET r == RW_UUID_SCRIPT(rwCounter) IN
        /\ rwCounter' = r.counter
        /\ rwUuid' = [rwUuid EXCEPT ![c] = r.ret]
    /\ rwPc' = [rwPc EXCEPT ![c] = "reading"]
    /\ UNCHANGED <<rwLock, rwReaders, rwIntents, rwValue, rwCache, rwRes, rwGot>>
    /\ UNCHANGED rwOthers

(* What read() / write() does with the reply of execute_script: the guard   *)
(* on true, one more turn of the loop on false, a panic (unwrap) on an      *)
(* error reply.                                                             *)
RwAfterReply(ret, guard, again) ==
    CASE ret = 1 -> guard
      [] ret = 0 -> again
      [] ret = -1 -> "panicked"

(* RwLock::read, one iteration of the loop.                                 *)
RwReadTry(c, timeout) ==
    /\ rwPc[c] = "reading"
    /\ \E page \in ScanFirstPage(RwKeys(rwIntents)) :
         LET r == READER_LOCK(rwLock, rwReaders, page, rwUuid[c], timeout) IN
           /\ rwReaders' = r.readers
           /\ rwPc' = [rwPc EXCEPT ![c] = RwAfterReply(r.ret, "rguard", "reading")]
           /\ rwUuid' = [rwUuid EXCEPT ![c] = IF r.ret = -1 THEN 0 ELSE @]
    /\ UNCHANGED <<rwCounter, rwLock, rwIntents, rwValue, rwCache, rwRes, rwGot>>
    /\ UNCHANGED rwOthers

(* Drop for RwLockReadGuard.                                                *)
RwReadDrop(c) ==
    /\ rwPc[c] = "rguard"
    /\ rwReaders' = READER_LOCK_DROP(rwReaders, rwUuid[c])
    /\ rwPc' = [rwPc EXCEPT ![c] = "idle"]
    /\ rwUuid' = [rwUuid EXCEPT ![c] = 0]
    /\ rwGot' = [rwGot EXCEPT ![c] = 0]
    /\ UNCHANGED <<rwCounter, rwLock, rwIntents, rwValue, rwCache, rwRes>>
    /\ UNCHANGED rwOthers

(* RwLock::write, first part: writer_wanted and generate_uuid.              *)
RwWriteBegin(c, cap) ==
    /\ rwPc[c] \in {"idle", "panicked"}
    /\ rwCounter < cap
    /\ LET r == RW_UUID_SCRIPT(rwCounter) IN
        /\ rwCounter' = r.counter
        /\ rwUuid' = [rwUuid EXCEPT ![c] = r.ret]
    /\ rwPc' = [rwPc EXCEPT ![c] = "writing"]
    /\ UNCHANGED <<rwLock, rwReaders, rwIntents, rwValue, rwCache, rwRes, rwGot>>
    /\ UNCHANGED rwOthers

(* RwLock::write, one iteration of the loop.                                *)
RwWriteTry(c, timeout) ==
    /\ rwPc[c] = "writing"
    /\ LET r == WRITER_LOCK(rwLock, rwIntents, rwUuid[c], timeout) IN
        /\ rwLock' = r.lock
        /\ rwIntents' = r.intents
        /\ rwPc' = [rwPc EXCEPT ![c] = RwAfterReply(r.ret, "wguard", "writing")]
        /\ rwUuid' = [rwUuid EXCEPT ![c] = IF r.ret = -1 THEN 0 ELSE @]
    /\ UNCHANGED <<rwCounter, rwReaders, rwValue, rwCache, rwRes, rwGot>>
    /\ UNCHANGED rwOthers

(* RwLockWriteGuard::store.                                                 *)
RwWriteStore(c, v) ==
    /\ rwPc[c] = "wguard"
    /\ LET r == RW_STORE_SCRIPT(rwLock, rwValue, rwUuid[c], DecStr(v)) IN
        /\ rwValue' = r.value
        /\ IF r.ret = 0
           THEN /\ rwRes' = [rwRes EXCEPT ![c] = "LockExpired"]
                /\ UNCHANGED rwCache
           ELSE /\ rwRes' = [rwRes EXCEPT ![c] = "Ok"]
                /\ rwCache' = [rwCache EXCEPT ![c] = Some(v)]
    /\ UNCHANGED <<rwCounter, rwLock, rwReaders, rwIntents, rwPc, rwUuid, rwGot>>
    /\ UNCHANGED rwOthers

(* try_get of both guards: the reply of LOAD_SCRIPT as Option<T>.           *)
try_get(reply) == IF reply = Nil THEN None ELSE Some(StrNum(reply))

(* RwLockReadGuard::acquire: the guard's cache is set to try_get() and      *)
(* unwrapped; unwrapping None panics.                                       *)
RwReadAcquire(c) ==
    /\ rwPc[c] = "rguard"
    /\ LET got == try_get(RW_LOAD_SCRIPT(rwLock, rwReaders, rwValue, rwUuid[c])) IN
        rwGot' = [rwGot EXCEPT ![c] = IF got = None THEN -1 ELSE got[1]]
    /\ UNCHANGED <<rwCounter, rwLock, rwReaders, rwIntents, rwValue, rwPc, rwUuid,
                   rwCache, rwRes>>
    /\ UNCHANGED rwOthers

(* RwLockWriteGuard::acquire: the same, on the cache of the RwLock.         *)
RwWriteAcquire(c) ==
    /\ rwPc[c] = "wguard"
    /\ LET got == try_get(RW_LOAD_SCRIPT(rwLock, rwReaders, rwValue, rwUuid[c])) IN
        /\ rwCache' = [rwCache EXCEPT ![c] = got]
        /\ rwGot' = [rwGot EXCEPT ![c] = IF got = None THEN -1 ELSE got[1]]
    /\ UNCHANGED <<rwCounter, rwLock, rwReaders, rwIntents, rwValue, rwPc, rwUuid,
                   rwRes>>
    /\ UNCHANGED rwOthers

(* Drop for RwLockWriteGuard.                                               *)
RwWriteDrop(c) ==
    /\ rwPc[c] = "wguard"
    /\ LET r == WRITER_LOCK_DROP(rwLock, rwIntents, rwUuid[c]) IN
        /\ rwLock' = r.lock
        /\ rwIntents' = r.intents
    /\ rwPc' = [rwPc EXCEPT ![c] = "idle"]
    /\ rwUuid' = [rwUuid EXCEPT ![c] = 0]
    /\ rwRes' = [rwRes EXCEPT ![c] = "none"]
    /\ rwGot' = [rwGot EXCEPT ![c] = 0]
    /\ UNCHANGED <<rwCounter, rwReaders, rwValue, rwCache>>
    /\ UNCHANGED rwOthers

(* One second passes at the server.                                         *)
RwTick ==
    /\ rwLock.ttl > 0 \/ RwKeys(rwReaders) # {} \/ RwKeys(rwIntents) # {}
    /\ rwLock' = Age(rwLock)
    /\ rwReaders' = RwAge(rwReaders)
    /\ rwIntents' = RwAge(rwIntents)
    /\ UNCHANGED <<rwCounter, rwValue, rwPc, rwUuid, rwCache, rwRes, rwGot>>
    /\ UNCHANGED rwOthers

RwInit ==
    /\ rwCounter = 0
    /\ rwLock = AbsentKey
    /\ rwReaders = [u \in RwTokens |-> 0]
    /\ rwIntents = [u \in RwTokens |-> 0]
    /\ rwValue = Nil
    /\ rwPc = [c \in RwClients |-> "idle"]
    /\ rwUuid = [c \in RwClients |-> 0]
    /\ rwCache = [c \in RwClients |-> None]
    /\ rwRes = [c \in RwClients |-> "none"]
    /\ rwGot = [c \in RwClients |-> 0]

RwNext ==
    \/ \E c \in RwClients : RwReadBegin(c, MaxRwToken)
    \/ \E c \in RwClients : RwReadTry(c, RwTimeout)
    \/ \E c \in RwClients : RwReadDrop(c)
    \/ \E c \in RwClients : RwWriteBegin(c, MaxRwToken)
    \/ \E c \in RwClients : RwWriteTry(c, RwTimeout)
    \/ \E c \in RwClients, v \in Values : RwWriteStore(c, v)
    \/ \E c \in RwClients : RwWriteDrop(c)
    \/ RwTick

(* read() and write() with the arguments execute_script sends.              *)
RwCalledNext ==
    \/ \E c \in RwClients : RwReadBegin(c, MaxCalls)
    \/ \E c \in RwClients : RwReadTry(c, ExecuteScriptArg3)
    \/ \E c \in RwClients : RwWriteBegin(c, MaxCalls)
    \/ \E c \in RwClients : RwWriteTry(c, ExecuteScriptArg3)

(* A client inside read() or write() keeps calling the script.              *)
RwCalledFairness ==
    \A c \in RwClients :
        /\ WF_vars(RwReadTry(c, ExecuteScriptArg3))
        /\ WF_vars(RwWriteTry(c, ExecuteScriptArg3))

(* The same with the guards' acquire.                                       *)
RwLoadNext ==
    \/ RwNext
    \/ \E c \in RwClients : RwReadAcquire(c)
    \/ \E c \in RwClients : RwWriteAcquire(c)

(* ============================================================== Barrier *)
BaParties == 1..NumParties
BaTokens == 1..NumParties
BarrierTimeout == 2     \* wait(): let timeout = 2
BaKeys(m) == {u \in BaTokens : m[u] > 0}
BaAge(m) == [u \in BaTokens |-> IF m[u] > 0 THEN m[u] - 1 ELSE 0]

(* The repeat ... until cursor == "0" loop over SCAN: the number of keys    *)
(* K:waiting:* that exist while the script runs.                            *)
ScanCount(waiting) == Cardinality(BaKeys(waiting))

(* Mutant: the leader is elected by the first arrival, without a quorum.    *)
WAITING_SCRIPT_NoQuorum(leader, waiting, uuid, num, timeout) ==
    LET w == [waiting EXCEPT ![uuid] = timeout] IN
    IF Exists(leader)
    THEN [ret |-> IF leader.val = DecStr(uuid) THEN 2 ELSE 1,
          leader |-> leader, waiting |-> w]
    ELSE [ret |-> 2, leader |-> SetEx(DecStr(uuid), timeout), waiting |-> w]

(* Mutant: every arrival that sees the quorum is told it is the leader.     *)
WAITING_SCRIPT_AllLead(leader, waiting, uuid, num, timeout) ==
    LET w == [waiting EXCEPT ![uuid] = timeout] IN
    IF ScanCount(w) < num /\ ~Exists(leader)
    THEN [ret |-> 0, leader |-> leader, waiting |-> w]
    ELSE [ret |-> 2, leader |-> SetEx(DecStr(uuid), timeout), waiting |-> w]

(* Mutant: the quorum is counted before the caller's own key is written.   *)
WAITING_SCRIPT_CountsBefore(leader, waiting, uuid, num, timeout) ==
    LET w == [waiting EXCEPT ![uuid] = timeout] IN
    IF Exists(leader)
    THEN [ret |-> IF leader.val = DecStr(uuid) THEN 2 ELSE 1,
          leader |-> leader, waiting |-> w]
    ELSE IF ScanCount(waiting) < num
         THEN [ret |-> 0, leader |-> leader, waiting |-> w]
         ELSE [ret |-> 2, leader |-> SetEx(DecStr(uuid), timeout), waiting |-> w]

(* WAITING_SCRIPT(key, uuid, num, timeout): 0 waiting, 1 done, 2 leader.    *)
WAITING_SCRIPT(leader, waiting, uuid, num, timeout) ==
    LET w == [waiting EXCEPT ![uuid] = timeout] IN
    IF Exists(leader)
    THEN [ret |-> IF leader.val = DecStr(uuid) THEN 2 ELSE 1,
          leader |-> leader, waiting |-> w]
    ELSE IF ScanCount(w) < num
         THEN [ret |-> 0, leader |-> leader, waiting |-> w]
         ELSE \* set K:leader uuid EX timeout NX: K:leader is absent here
              [ret |-> 2, leader |-> SetEx(DecStr(uuid), timeout), waiting |-> w]

(* Mutant: the last drop leaves K:leader and K:uuids behind.                *)
RESET_SCRIPT_KeepsKeys(leader, waiting, uuids, uuid) ==
    [leader |-> leader, uuids |-> uuids, waiting |-> [waiting EXCEPT ![uuid] = 0]]

(* Mutant: every drop deletes K:leader and K:uuids.                         *)
RESET_SCRIPT_Always(leader, waiting, uuids, uuid) ==
    [leader |-> AbsentKey, uuids |-> 0, waiting |-> [waiting EXCEPT ![uuid] = 0]]

(* RESET_SCRIPT(key, uuid, num).                                            *)
RESET_SCRIPT(leader, waiting, uuids, uuid) ==
    LET w == [waiting EXCEPT ![uuid] = 0] IN
    IF ScanCount(w) = 0
    THEN [leader |-> AbsentKey, uuids |-> 0, waiting |-> w]
    ELSE [leader |-> leader, uuids |-> uuids, waiting |-> w]

(* UUID_SCRIPT(key): incr K:uuids, reply with its new value.                *)
BARRIER_UUID_SCRIPT(uuids) == [ret |-> uuids + 1, uuids |-> uuids + 1]

(* Barrier::new.                                                            *)
BarrierNew(p) ==
    /\ baPc[p] = "none"
    /\ LET r == BARRIER_UUID_SCRIPT(baUuids) IN
        /\ baUuids' = r.uuids
        /\ baUuid' = [baUuid EXCEPT ![p] = r.ret]
    /\ baPc' = [baPc EXCEPT ![p] = "created"]
    /\ baNum' = [baNum EXCEPT ![p] = NumParties]
    /\ UNCHANGED <<baLeader, baWaiting, baRes, baQuorum, baGen>>
    /\ UNCHANGED baOthers

(* Barrier::wait: one iteration of the loop; it returns once the status is  *)
(* not Waiting.                                                             *)
BarrierWait(p) ==
    /\ baPc[p] \in {"created", "waiting"}
    /\ LET r == WAITING_SCRIPT(baLeader, baWaiting, baUuid[p], baNum[p],
                               BarrierTimeout) IN
        /\ baLeader' = r.leader
        /\ baWaiting' = r.waiting
        /\ baPc' = [baPc EXCEPT ![p] = IF r.ret = 0 THEN "waiting" ELSE "returned"]
        /\ baRes' = [baRes EXCEPT ![p] = CASE r.ret = 0 -> "none"
                                           [] r.ret = 1 -> "follower"
                                           [] r.ret = 2 -> "leader"]
        /\ baQuorum' = (baQuorum \/
              Cardinality({u \in BaTokens : r.waiting[u] > 0}) >= baNum[p])
    /\ UNCHANGED <<baUuids, baUuid, baGen, baNum>>
    /\ UNCHANGED baOthers

(* Barrier::wait called once more on a handle whose first wait() returned:  *)
(* one iteration of the loop.                                               *)
BarrierWaitAgain(p) ==
    /\ baPc[p] \in {"returned", "waiting2"}
    /\ LET r == WAITING_SCRIPT(baLeader, baWaiting, baUuid[p], baNum[p],
                               BarrierTimeout) IN
        /\ baLeader' = r.leader
        /\ baWaiting' = r.waiting
        /\ baPc' = [baPc EXCEPT ![p] = IF r.ret = 0 THEN "waiting2" ELSE "returned2"]
        /\ baRes' = [baRes EXCEPT ![p] = CASE r.ret = 0 -> "none"
                                           [] r.ret = 1 -> "follower"
                                           [] r.ret = 2 -> "leader"]
        /\ baQuorum' = (baQuorum \/
              Cardinality({u \in BaTokens : r.waiting[u] > 0}) >= baNum[p])
    /\ UNCHANGED <<baUuids, baUuid, baGen, baNum>>
    /\ UNCHANGED baOthers

(* Drop for Barrier: of a handle that is not inside wait().                 *)
BarrierDrop(p) ==
    /\ baPc[p] \in {"created", "returned", "returned2"}
    /\ LET r == RESET_SCRIPT(baLeader, baWaiting, baUuids, baUuid[p]) IN
        /\ baLeader' = r.leader
        /\ baWaiting' = r.waiting
        /\ baUuids' = r.uuids
    /\ baPc' = [baPc EXCEPT ![p] = "dropped"]
    /\ UNCHANGED <<baUuid, baRes, baQuorum, baGen, baNum>>
    /\ UNCHANGED baOthers

(* One second passes at the server.                                         *)
BarrierTick ==
    /\ baLeader.ttl > 0 \/ BaKeys(baWaiting) # {}
    /\ baLeader' = Age(baLeader)
    /\ baWaiting' = BaAge(baWaiting)
    /\ UNCHANGED <<baUuids, baPc, baUuid, baRes, baQuorum, baGen, baNum>>
    /\ UNCHANGED baOthers

BarrierInit ==
    /\ baUuids = 0
    /\ baLeader = AbsentKey
    /\ baWaiting = [u \in BaTokens |-> 0]
    /\ baPc = [p \in BaParties |-> "none"]
    /\ baUuid = [p \in BaParties |-> 0]
    /\ baRes = [p \in BaParties |-> "none"]
    /\ baQuorum = FALSE
    /\ baGen = 1
    /\ baNum = [p \in BaParties |-> 0]

BarrierNext ==
    \/ \E p \in BaParties : BarrierNew(p)
    \/ \E p \in BaParties : BarrierWait(p)
    \/ \E p \in BaParties : BarrierDrop(p)
    \/ BarrierTick

(* The client code, after every handle of a generation was dropped, makes   *)
(* NumParties new barriers on the same key: the handles of the model start  *)
(* over, the keys at the server are what the drops left.                    *)
BarrierRecreate ==
    /\ \A p \in BaParties : baPc[p] = "dropped"
    /\ baGen < MaxGenerations
    /\ baGen' = baGen + 1
    /\ baPc' = [p \in BaParties |-> "none"]
    /\ baUuid' = [p \in BaParties |-> 0]
    /\ baRes' = [p \in BaParties |-> "none"]
    /\ baQuorum' = FALSE
    /\ baNum' = [p \in BaParties |-> 0]
    /\ UNCHANGED <<baUuids, baLeader, baWaiting>>
    /\ UNCHANGED baOthers

BarrierAgainNext == BarrierNext \/ \E p \in BaParties : BarrierWaitAgain(p)

BarrierReuseNext == BarrierNext \/ BarrierRecreate

(* A party inside wait() keeps invoking the script, and time passes.        *)
BarrierPoll(p) == baPc[p] = "waiting" /\ BarrierWait(p)
BarrierFairness ==
    /\ WF_vars(BarrierTick)
    /\ \A p \in BaParties : WF_vars(BarrierPoll(p))

(* ============================================================== SetLoad *)
SlHandles == 1..NumSetLoad

(* Lua's < on two strings: the order of strcoll, character by character,    *)
(* a proper prefix being the smaller string.                                *)
RECURSIVE LuaStrLess(_, _)
LuaStrLess(a, b) ==
    IF Len(b) = 0 THEN FALSE
    ELSE IF Len(a) = 0 THEN TRUE
    ELSE IF a[1] # b[1] THEN a[1] < b[1]
    ELSE LuaStrLess(Tail(a), Tail(b))

(* Mutant: the script writes whatever the stored ordering number is.        *)
SET_LOAD_SCRIPT_Unordered(order, value, c, v) ==
    [order |-> c, value |-> v, ret |-> <<v, c>>]

(* Mutant: the ordering numbers are compared with <=.                       *)
SET_LOAD_SCRIPT_OrEqual(order, value, c, v) ==
    IF order = Nil \/ order = c \/ LuaStrLess(order, c)
    THEN [order |-> c, value |-> v, ret |-> <<v, c>>]
    ELSE [order |-> order, value |-> value, ret |-> <<value, order>>]

(* SET_LOAD_SCRIPT(key, order, value): ARGV[2] and the reply of GET are     *)
(* both strings, and current_order < order compares them as strings.        *)
SET_LOAD_SCRIPT(order, value, c, v) ==
    IF order = Nil \/ LuaStrLess(order, c)
    THEN [order |-> c, value |-> v, ret |-> <<v, c>>]
    ELSE [order |-> order, value |-> value, ret |-> <<value, order>>]

(* LOAD_SCRIPT(key).                                                        *)
SET_LOAD_LOAD_SCRIPT(order, value) == <<value, order>>

(* SetLoad::store_redis: the script's reply decoded as                      *)
(* (Option<String>, usize).                                                 *)
store_redis(order, value, counter, val) ==
    LET r == SET_LOAD_SCRIPT(order, value, DecStr(counter), val) IN
    [order |-> r.order, value |-> r.value,
     ret |-> <<r.ret[1], StrNum(r.ret[2])>>]

(* The serialized value of a cache / of a reply: serde_json::from_str of    *)
(* an integer and back.                                                     *)
FromJson(s) == IF s = Nil THEN None ELSE Some(StrNum(s))

(* SetLoad::load (also run by SetLoad::new).                                *)
load(h) ==
    LET res == SET_LOAD_LOAD_SCRIPT(slOrder, slValue) IN
    /\ slCache' = [slCache EXCEPT ![h] = FromJson(res[1])]
    /\ slCounter' = [slCounter EXCEPT ![h] =
                        IF res[2] = Nil THEN 0 ELSE StrNum(res[2])]

SetLoadNew(h) ==
    /\ slPc[h] = "none"
    /\ load(h)
    /\ slPc' = [slPc EXCEPT ![h] = "idle"]
    /\ UNCHANGED <<slOrder, slValue, slVal, slRes>>
    /\ UNCHANGED slOthers

SetLoadLoad(h) ==
    /\ slPc[h] = "idle"
    /\ load(h)
    /\ slRes' = [slRes EXCEPT ![h] = "none"]
    /\ UNCHANGED <<slOrder, slValue, slPc, slVal>>
    /\ UNCHANGED slOthers

(* SetLoad::store; cap bounds the counter.                                  *)
SetLoadStore(h, v, cap) ==
    /\ slPc[h] = "idle"
    /\ slCounter[h] < cap
    /\ LET counter == slCounter[h] + 1
           val_json == DecStr(v)
           r == store_redis(slOrder, slValue, counter, val_json)
       IN
        /\ slCounter' = [slCounter EXCEPT ![h] = counter]
        /\ slOrder' = r.order
        /\ slValue' = r.value
        /\ IF r.ret[1] # Nil /\ counter >= r.ret[2] /\ r.ret[1] = val_json
           THEN /\ slCache' = [slCache EXCEPT ![h] = Some(v)]
                /\ slRes' = [slRes EXCEPT ![h] = "Ok"]
           ELSE /\ UNCHANGED slCache
                /\ slRes' = [slRes EXCEPT ![h] = "OrderError"]
    /\ UNCHANGED <<slPc, slVal>>
    /\ UNCHANGED slOthers

(* The condition of the while loop of store_blocking.                       *)
MustRetry(counter, res, val_json) ==
    counter < res[2] \/ res[1] = Nil \/ res[1] # val_json

(* SetLoad::store_blocking from its call to the next invocation of the     *)
(* script: the first store_redis, the test of the loop condition and, when  *)
(* it holds, self.counter = res.1 + 1.  cap bounds the counter.             *)
SetLoadStoreBlocking(h, v, cap) ==
    /\ slPc[h] = "idle"
    /\ LET val_json == DecStr(v)
           r == store_redis(slOrder, slValue, slCounter[h], val_json)
       IN
        /\ slOrder' = r.order
        /\ slValue' = r.value
        /\ IF MustRetry(slCounter[h], r.ret, val_json)
           THEN /\ r.ret[2] < cap
                /\ slCounter' = [slCounter EXCEPT ![h] = r.ret[2] + 1]
                /\ slPc' = [slPc EXCEPT ![h] = "blocking"]
                /\ slVal' = [slVal EXCEPT ![h] = v]
                /\ slRes' = [slRes EXCEPT ![h] = "none"]
                /\ UNCHANGED slCache
           ELSE /\ slCache' = [slCache EXCEPT ![h] = Some(v)]
                /\ slRes' = [slRes EXCEPT ![h] = "Ok"]
                /\ UNCHANGED <<slCounter, slPc, slVal>>
    /\ UNCHANGED slOthers

(* One more turn of the loop of store_blocking: store_redis with the        *)
(* counter as set, the test of the loop condition and, when it holds,       *)
(* self.counter = res.1 + 1; otherwise the cache is set and Ok returned.    *)
SetLoadRetry(h, cap) ==
    /\ slPc[h] = "blocking"
    /\ LET val_json == DecStr(slVal[h])
           r == store_redis(slOrder, slValue, slCounter[h], val_json)
       IN
        /\ slOrder' = r.order
        /\ slValue' = r.value
        /\ IF MustRetry(slCounter[h], r.ret, val_json)
           THEN /\ r.ret[2] < cap
                /\ slCounter' = [slCounter EXCEPT ![h] = r.ret[2] + 1]
                /\ UNCHANGED <<slPc, slVal, slCache, slRes>>
           ELSE /\ slPc' = [slPc EXCEPT ![h] = "idle"]
                /\ slVal' = [slVal EXCEPT ![h] = 0]
                /\ slCache' = [slCache EXCEPT ![h] = Some(slVal[h])]
                /\ slRes' = [slRes EXCEPT ![h] = "Ok"]
                /\ UNCHANGED slCounter
    /\ UNCHANGED slOthers

SetLoadInit ==
    /\ slOrder = Nil
    /\ slValue = Nil
    /\ slPc = [h \in SlHandles |-> "none"]
    /\ slCounter = [h \in SlHandles |-> 0]
    /\ slCache = [h \in SlHandles |-> None]
    /\ slVal = [h \in SlHandles |-> 0]
    /\ slRes = [h \in SlHandles |-> "none"]

SetLoadNext ==
    \/ \E h \in SlHandles : SetLoadNew(h)
    \/ \E h \in SlHandles : SetLoadLoad(h)
    \/ \E h \in SlHandles, v \in Values : SetLoadStore(h, v, MaxCounter)
    \/ \E h \in SlHandles, v \in Values :
            SetLoadStoreBlocking(h, v, MaxCounter)
    \/ \E h \in SlHandles : SetLoadRetry(h, MaxCounter)

(* Two of the handles, with counters that go on into the two-digit orders.  *)
DigitsHandles == {1, 2}

SetLoadDigitsNext ==
    \/ \E h \in DigitsHandles : SetLoadNew(h)
    \/ \E h \in DigitsHandles : SetLoadLoad(h)
    \/ \E h \in DigitsHandles, v \in Values :
            SetLoadStore(h, v, MaxDigitsCounter)
    \/ \E h \in DigitsHandles, v \in Values :
            SetLoadStoreBlocking(h, v, MaxDigitsCounter)
    \/ \E h \in DigitsHandles : SetLoadRetry(h, MaxDigitsCounter)

(* ============================================================== Generic *)
GvKeys == 1..NumKeys
GvCells == 1..NumCells

(* Generic::set: SET key with serde_json::to_string(&value).               *)
GenericSet(store, key, value) == [store EXCEPT ![key] = DecStr(value)]

(* Generic::try_get: GET key; a reply that is not a string (nil) is an     *)
(* Err and gives None, a string is deserialized.                            *)
GenericTryGet(store, key) ==
    IF store[key] = Nil THEN None ELSE Some(StrNum(store[key]))

(* Generic::new followed by nothing: the handle, no command.               *)
GenericNew(h, k) ==
    /\ gvPc[h] = "none"
    /\ gvPc' = [gvPc EXCEPT ![h] = "live"]
    /\ gvKey' = [gvKey EXCEPT ![h] = k]
    /\ UNCHANGED <<gvStore, gvCache, gvArg, gvRes, gvRet>>
    /\ UNCHANGED gvOthers

(* Mutant: store writes the server and leaves the cache.                    *)
GenericStore_ServerOnly(h, value) ==
    /\ gvPc[h] = "live"
    /\ gvStore' = GenericSet(gvStore, gvKey[h], value)
    /\ gvRes' = [gvRes EXCEPT ![h] = "Ok"]
    /\ UNCHANGED <<gvPc, gvKey, gvArg, gvRet, gvCache>>
    /\ UNCHANGED gvOthers

(* Generic::store.                                                          *)
GenericStore(h, value) ==
    /\ gvPc[h] = "live"
    /\ gvStore' = GenericSet(gvStore, gvKey[h], value)
    /\ gvCache' = [gvCache EXCEPT ![h] = Some(value)]
    /\ gvRes' = [gvRes EXCEPT ![h] = "Ok"]
    /\ UNCHANGED <<gvPc, gvKey, gvArg, gvRet>>
    /\ UNCHANGED gvOthers

(* Generic::with_value: new, then store.                                    *)
GenericWithValue(h, k, value) ==
    /\ gvPc[h] = "none"
    /\ gvPc' = [gvPc EXCEPT ![h] = "live"]
    /\ gvKey' = [gvKey EXCEPT ![h] = k]
    /\ gvStore' = GenericSet(gvStore, k, value)
    /\ gvCache' = [gvCache EXCEPT ![h] = Some(value)]
    /\ gvRes' = [gvRes EXCEPT ![h] = "Ok"]
    /\ UNCHANGED <<gvArg, gvRet>>
    /\ UNCHANGED gvOthers

(* Mutant: with_load leaves the cache of the new handle empty.              *)
GenericWithLoad_NoRead(h, k) ==
    /\ gvPc[h] = "none"
    /\ gvPc' = [gvPc EXCEPT ![h] = "live"]
    /\ gvKey' = [gvKey EXCEPT ![h] = k]
    /\ UNCHANGED <<gvStore, gvCache, gvArg, gvRes, gvRet>>
    /\ UNCHANGED gvOthers

(* Generic::with_load: new, then cache = try_get().                         *)
GenericWithLoad(h, k) ==
    /\ gvPc[h] = "none"
    /\ gvPc' = [gvPc EXCEPT ![h] = "live"]
    /\ gvKey' = [gvKey EXCEPT ![h] = k]
    /\ gvCache' = [gvCache EXCEPT ![h] = GenericTryGet(gvStore, k)]
    /\ UNCHANGED <<gvStore, gvArg, gvRes, gvRet>>
    /\ UNCHANGED gvOthers

(* Generic::with_value_default up to its store: new, try_get (one GET),     *)
(* and either the cache is set from the reply, or the store is still to     *)
(* be sent: the GET and the SET are two commands.                           *)
GenericWithValueDefault(h, k, value) ==
    /\ gvPc[h] = "none"
    /\ gvKey' = [gvKey EXCEPT ![h] = k]
    /\ LET v == GenericTryGet(gvStore, k) IN
         IF v = None
         THEN /\ gvPc' = [gvPc EXCEPT ![h] = "defaulting"]
              /\ gvArg' = [gvArg EXCEPT ![h] = value]
              /\ UNCHANGED gvCache
         ELSE /\ gvPc' = [gvPc EXCEPT ![h] = "live"]
              /\ gvCache' = [gvCache EXCEPT ![h] = v]
              /\ UNCHANGED gvArg
    /\ UNCHANGED <<gvStore, gvRes, gvRet>>
    /\ UNCHANGED gvOthers

(* Generic::with_value_default, new_type.store(value).                      *)
GenericDefaultStore(h) ==
    /\ gvPc[h] = "defaulting"
    /\ gvStore' = GenericSet(gvStore, gvKey[h], gvArg[h])
    /\ gvCache' = [gvCache EXCEPT ![h] = Some(gvArg[h])]
    /\ gvPc' = [gvPc EXCEPT ![h] = "live"]
    /\ gvArg' = [gvArg EXCEPT ![h] = 0]
    /\ gvRes' = [gvRes EXCEPT ![h] = "Ok"]
    /\ UNCHANGED <<gvKey, gvRet>>
    /\ UNCHANGED gvOthers

(* Mutant: acquire answers from the cache it has.                           *)
GenericAcquire_Cached(h) ==
    /\ gvPc[h] = "live"
    /\ gvRes' = [gvRes EXCEPT ![h] = IF gvCache[h] = None THEN "panic" ELSE "Ok"]
    /\ UNCHANGED <<gvStore, gvPc, gvKey, gvArg, gvRet, gvCache>>
    /\ UNCHANGED gvOthers

(* Generic::acquire: cache = try_get(), then cache.as_ref().unwrap(),       *)
(* which panics on None.                                                    *)
GenericAcquire(h) ==
    /\ gvPc[h] = "live"
    /\ LET v == GenericTryGet(gvStore, gvKey[h]) IN
        /\ gvCache' = [gvCache EXCEPT ![h] = v]
        /\ gvRes' = [gvRes EXCEPT ![h] = IF v = None THEN "panic" ELSE "Ok"]
    /\ UNCHANGED <<gvStore, gvPc, gvKey, gvArg, gvRet>>
    /\ UNCHANGED gvOthers

(* Generic::into_inner as an operator: DEL key, then cache.take().expect.   *)
into_inner(store, key, cache) ==
    [store |-> [store EXCEPT ![key] = Nil],
     ret |-> cache,
     res |-> IF cache = None THEN "panic" ELSE "Ok"]

(* Mutant: into_inner returns what the server holds.                        *)
GenericIntoInner_Fresh(h) ==
    /\ gvPc[h] = "live"
    /\ LET r == into_inner(gvStore, gvKey[h], GenericTryGet(gvStore, gvKey[h])) IN
        /\ gvStore' = r.store
        /\ gvRet' = [gvRet EXCEPT ![h] = r.ret]
        /\ gvRes' = [gvRes EXCEPT ![h] = r.res]
    /\ gvPc' = [gvPc EXCEPT ![h] = "consumed"]
    /\ gvCache' = [gvCache EXCEPT ![h] = None]
    /\ UNCHANGED <<gvKey, gvArg>>
    /\ UNCHANGED gvOthers

(* Generic::into_inner: the handle is consumed.                             *)
GenericIntoInner(h) ==
    /\ gvPc[h] = "live"
    /\ LET r == into_inner(gvStore, gvKey[h], gvCache[h]) IN
        /\ gvStore' = r.store
        /\ gvRet' = [gvRet EXCEPT ![h] = r.ret]
        /\ gvRes' = [gvRes EXCEPT ![h] = r.res]
    /\ gvPc' = [gvPc EXCEPT ![h] = "consumed"]
    /\ gvCache' = [gvCache EXCEPT ![h] = None]
    /\ UNCHANGED <<gvKey, gvArg>>
    /\ UNCHANGED gvOthers

(* The closures handed to apply_operator by ops::Add and ops::Mul.          *)
GvOps == {"add", "mul"}
GvFunc(op, a, b) == IF op = "add" THEN a + b ELSE a * b

(* apply_operator(me, rhs, func): what it stores.                           *)
apply_operator(cache, rhs, op) ==
    IF cache = None THEN rhs ELSE GvFunc(op, cache[1], rhs)

(* Mutant: the operator leaves the key of its right-hand cell.              *)
GenericOp_KeepsRhs(l, r, op) ==
    /\ l # r
    /\ gvPc[l] = "live" /\ gvPc[r] = "live"
    /\ IF gvCache[r] = None
       THEN /\ gvPc' = [gvPc EXCEPT ![r] = "consumed", ![l] = "consumed"]
            /\ gvStore' = gvStore
            /\ gvCache' = [gvCache EXCEPT ![l] = None]
            /\ gvRes' = [gvRes EXCEPT ![l] = "panic", ![r] = "panic"]
       ELSE LET value == apply_operator(gvCache[l], gvCache[r][1], op) IN
            /\ gvPc' = [gvPc EXCEPT ![r] = "consumed"]
            /\ gvStore' = GenericSet(gvStore, gvKey[l], value)
            /\ gvCache' = [gvCache EXCEPT ![l] = Some(value), ![r] = None]
            /\ gvRes' = [gvRes EXCEPT ![l] = "Ok", ![r] = "Ok"]
    /\ gvRet' = [gvRet EXCEPT ![r] = gvCache[r]]
    /\ UNCHANGED <<gvKey, gvArg>>
    /\ UNCHANGED gvOthers

(* ops::Add<Generic<T>> / ops::Mul<Generic<T>> for Generic<T>:              *)
(* self op rhs.into_inner(), that is into_inner of rhs, then                *)
(* apply_operator, which stores.  When rhs has no cached value into_inner   *)
(* panics after its DEL and both handles are gone.                          *)
GenericOp(l, r, op) ==
    /\ l # r
    /\ gvPc[l] = "live" /\ gvPc[r] = "live"
    /\ LET i == into_inner(gvStore, gvKey[r], gvCache[r]) IN
        /\ gvRet' = [gvRet EXCEPT ![r] = i.ret]
        /\ IF i.res = "panic"
           THEN /\ gvPc' = [gvPc EXCEPT ![r] = "consumed", ![l] = "consumed"]
                /\ gvStore' = i.store
                /\ gvCache' = [gvCache EXCEPT ![l] = None]
                /\ gvRes' = [gvRes EXCEPT ![l] = "panic", ![r] = "panic"]
           ELSE LET value == apply_operator(gvCache[l], i.ret[1], op) IN
                /\ gvPc' = [gvPc EXCEPT ![r] = "consumed"]
                /\ gvStore' = GenericSet(i.store, gvKey[l], value)
                /\ gvCache' = [gvCache EXCEPT ![l] = Some(value), ![r] = None]
                /\ gvRes' = [gvRes EXCEPT ![l] = "Ok", ![r] = "Ok"]
    /\ UNCHANGED <<gvKey, gvArg>>
    /\ UNCHANGED gvOthers

GenericInit ==
    /\ gvStore = [k \in GvKeys |-> Nil]
    /\ gvPc = [h \in GvCells |-> "none"]
    /\ gvKey = [h \in GvCells |-> 0]
    /\ gvCache = [h \in GvCells |-> None]
    /\ gvArg = [h \in GvCells |-> 0]
    /\ gvRes = [h \in GvCells |-> "none"]
    /\ gvRet = [h \in GvCells |-> None]

GenericNext ==
    \/ \E h \in GvCells, k \in GvKeys : GenericNew(h, k)
    \/ \E h \in GvCells, k \in GvKeys, v \in Values : GenericWithValue(h, k, v)
    \/ \E h \in GvCells, k \in GvKeys : GenericWithLoad(h, k)
    \/ \E h \in GvCells, k \in GvKeys, v \in Values :
            GenericWithValueDefault(h, k, v)
    \/ \E h \in GvCells : GenericDefaultStore(h)
    \/ \E h \in GvCells, v \in Values : GenericStore(h, v)
    \/ \E h \in GvCells : GenericAcquire(h)
    \/ \E h \in GvCells : GenericIntoInner(h)
    \/ \E l \in GvCells, r \in GvCells, op \in GvOps : GenericOp(l, r, op)

(* ================================================================= List *)
LiHandles == 1..NumLists

(* The list commands of the server.                                         *)
LPUSH(list, s) == <<s>> \o list
RPUSH(list, s) == Append(list, s)
LPOP(list) == IF list = << >> THEN [ret |-> Nil, list |-> list]
              ELSE [ret |-> Head(list), list |-> Tail(list)]
RPOP(list) == IF list = << >> THEN [ret |-> Nil, list |-> list]
              ELSE [ret |-> list[Len(list)],
                    list |-> SubSeq(list, 1, Len(list) - 1)]
LLEN(list) == Len(list)
LRANGE(list) == list    \* LRANGE key 0 -1

(* The reply of LPOP / RPOP read as Option<String> by .query().ok() (a nil  *)
(* reply is an Err for String) and deserialized.                            *)
PopReply(reply) == IF reply = Nil THEN None ELSE Some(StrNum(reply))

LiCall(h, op, val) == liRet' = [liRet EXCEPT ![h] = [op |-> op, val |-> val]]

(* Mutant: push_back sends LPUSH.                                           *)
ListPushBack_AtFront(h, val) ==
    /\ Len(liServer) < MaxListLen
    /\ liServer' = LPUSH(liServer, DecStr(val))
    /\ LiCall(h, "push", None)
    /\ UNCHANGED lcCache
    /\ UNCHANGED liOthers

(* List::push_back.                                                         *)
ListPushBack(h, val) ==
    /\ Len(liServer) < MaxListLen
    /\ liServer' = RPUSH(liServer, DecStr(val))
    /\ LiCall(h, "push", None)
    /\ UNCHANGED lcCache
    /\ UNCHANGED liOthers

(* List::push_front.                                                        *)
ListPushFront(h, val) ==
    /\ Len(liServer) < MaxListLen
    /\ liServer' = LPUSH(liServer, DecStr(val))
    /\ LiCall(h, "push", None)
    /\ UNCHANGED lcCache
    /\ UNCHANGED liOthers

(* List::pop_front.                                                         *)
ListPopFront(h) ==
    /\ LET r == LPOP(liServer) IN
        /\ liServer' = r.list
        /\ LiCall(h, "pop", PopReply(r.ret))
    /\ UNCHANGED lcCache
    /\ UNCHANGED liOthers

(* List::pop_back.                                                          *)
ListPopBack(h) ==
    /\ LET r == RPOP(liServer) IN
        /\ liServer' = r.list
        /\ LiCall(h, "pop", PopReply(r.ret))
    /\ UNCHANGED lcCache
    /\ UNCHANGED liOthers

(* List::len.                                                               *)
ListLen(h) ==
    /\ LiCall(h, "len", Some(LLEN(liServer)))
    /\ UNCHANGED <<liServer, lcCache>>
    /\ UNCHANGED liOthers

(* List::clear: DEL key.                                                    *)
ListClear(h) ==
    /\ liServer' = << >>
    /\ LiCall(h, "clear", None)
    /\ UNCHANGED lcCache
    /\ UNCHANGED liOthers

(* ---- ListCache.  ok says whether the command the call sends to the       *)
(* server is carried out or is answered with an error.                      *)
RECURSIVE LcDecode(_)
LcDecode(list) == IF list = << >> THEN << >>
                  ELSE <<StrNum(Head(list))>> \o LcDecode(Tail(list))
VecPushFront(cache, val) == <<val>> \o cache
VecPopFront(cache) == IF cache = << >> THEN cache ELSE Tail(cache)
VecPopBack(cache) == IF cache = << >> THEN cache
                     ELSE SubSeq(cache, 1, Len(cache) - 1)
VecFront(cache) == IF cache = << >> THEN None ELSE Some(Head(cache))
VecBack(cache) == IF cache = << >> THEN None ELSE Some(cache[Len(cache)])
(* VecDeque::insert(index, val), index counted from 0, index <= len.        *)
VecInsert(cache, index, val) ==
    SubSeq(cache, 1, index) \o <<val>> \o SubSeq(cache, index + 1, Len(cache))

(* ListCache::pull: the cache is what LRANGE returns, or empty on an error. *)
ListCachePull(h, ok) ==
    /\ lcCache' = [lcCache EXCEPT ![h] =
                      IF ok THEN LcDecode(LRANGE(liServer)) ELSE << >>]
    /\ LiCall(h, "pull", None)
    /\ UNCHANGED liServer
    /\ UNCHANGED liOthers

(* ListCache::push_back: List::push_back, whose execute panics on an error, *)
(* then cache.push_back.                                                    *)
ListCachePushBack(h, val, ok) ==
    /\ Len(liServer) < MaxListLen /\ Len(lcCache[h]) < MaxListLen
    /\ IF ok
       THEN /\ liServer' = RPUSH(liServer, DecStr(val))
            /\ lcCache' = [lcCache EXCEPT ![h] = Append(@, val)]
            /\ LiCall(h, "push", None)
       ELSE /\ UNCHANGED <<liServer, lcCache>>
            /\ LiCall(h, "panic", None)
    /\ UNCHANGED liOthers

(* ListCache::push_front.                                                   *)
ListCachePushFront(h, val, ok) ==
    /\ Len(liServer) < MaxListLen /\ Len(lcCache[h]) < MaxListLen
    /\ IF ok
       THEN /\ liServer' = LPUSH(liServer, DecStr(val))
            /\ lcCache' = [lcCache EXCEPT ![h] = VecPushFront(@, val)]
            /\ LiCall(h, "push", None)
       ELSE /\ UNCHANGED <<liServer, lcCache>>
            /\ LiCall(h, "panic", None)
    /\ UNCHANGED liOthers

(* ListCache::pop_back: List::pop_back, whose reply and whose error are     *)
(* dropped (.ok(), and the result is not used), then cache.pop_back().      *)
ListCachePopBack(h, ok) ==
    /\ liServer' = IF ok THEN RPOP(liServer).list ELSE liServer
    /\ lcCache' = [lcCache EXCEPT ![h] = VecPopBack(@)]
    /\ LiCall(h, "pop", VecBack(lcCache[h]))
    /\ UNCHANGED liOthers

(* ListCache::pop_front.                                                    *)
ListCachePopFront(h, ok) ==
    /\ liServer' = IF ok THEN LPOP(liServer).list ELSE liServer
    /\ lcCache' = [lcCache EXCEPT ![h] = VecPopFront(@)]
    /\ LiCall(h, "pop", VecFront(lcCache[h]))
    /\ UNCHANGED liOthers

(* ListCache::insert: cache.insert(index, val), which panics when index is  *)
(* beyond the length, then List::push_back of the inserted element.         *)
ListCacheInsert(h, index, val, ok) ==
    /\ Len(liServer) < MaxListLen /\ Len(lcCache[h]) < MaxListLen
    /\ IF index > Len(lcCache[h])
       THEN /\ UNCHANGED <<liServer, lcCache>>
            /\ LiCall(h, "panic", None)
       ELSE /\ lcCache' = [lcCache EXCEPT ![h] = VecInsert(@, index, val)]
            /\ IF ok
               THEN /\ liServer' = RPUSH(liServer, DecStr(val))
                    /\ LiCall(h, "insert", None)
               ELSE /\ UNCHANGED liServer
                    /\ LiCall(h, "panic", None)
    /\ UNCHANGED liOthers

ListInit ==
    /\ liServer = << >>
    /\ liRet = [h \in LiHandles |-> [op |-> "none", val |-> None]]
    /\ lcCache = [h \in LiHandles |-> << >>]

ListNext ==
    \/ \E h \in LiHandles, v \in Values : ListPushBack(h, v)
    \/ \E h \in LiHandles, v \in Values : ListPushFront(h, v)
    \/ \E h \in LiHandles : ListPopFront(h)
    \/ \E h \in LiHandles : ListPopBack(h)
    \/ \E h \in LiHandles : ListLen(h)
    \/ \E h \in LiHandles : ListClear(h)

(* One ListCache handle, made by ListCache::new on the empty key, and no    *)
(* other writer; oks are the outcomes the server calls may have.            *)
LcHandle == 1
ListCacheSteps(oks) ==
    \/ \E ok \in oks : ListCachePull(LcHandle, ok)
    \/ \E v \in Values, ok \in oks : ListCachePushBack(LcHandle, v, ok)
    \/ \E v \in Values, ok \in oks : ListCachePushFront(LcHandle, v, ok)
    \/ \E ok \in oks : ListCachePopBack(LcHandle, ok)
    \/ \E ok \in oks : ListCachePopFront(LcHandle, ok)
    \/ \E i \in 0..MaxListLen, v \in Values, ok \in oks :
            ListCacheInsert(LcHandle, i, v, ok)
ListCacheNext == ListCacheSteps({TRUE})
ListCacheFailNext == ListCacheSteps(BOOLEAN)

Init ==
    /\ MutexInit /\ RwInit /\ BarrierInit /\ SetLoadInit /\ GenericInit
    /\ ListInit
SpecMutex == Init /\ [][MutexNext]_vars
SpecMutexLive == Init /\ [][MutexLiveNext]_vars /\ MutexFairness
SpecRwLock == Init /\ [][RwNext]_vars
SpecRwLockCalled == Init /\ [][RwCalledNext]_vars /\ RwCalledFairness
SpecRwLockLoad == Init /\ [][RwLoadNext]_vars
SpecBarrier == Init /\ [][BarrierNext]_vars
SpecBarrierReuse == Init /\ [][BarrierReuseNext]_vars
SpecBarrierAgain == Init /\ [][BarrierAgainNext]_vars
SpecBarrierLive == Init /\ [][BarrierNext]_vars /\ BarrierFairness
SpecSetLoad == Init /\ [][SetLoadNext]_vars
SpecSetLoadDigits == Init /\ [][SetLoadDigitsNext]_vars
SpecGeneric == Init /\ [][GenericNext]_vars
SpecList == Init /\ [][ListNext]_vars
SpecListCache == Init /\ [][ListCacheNext]_vars
SpecListCacheFail == Init /\ [][ListCacheFailNext]_vars
Spec == SpecMutex

(* ------------------------------------------------------- Mutex: claims *)
MxToken(h) == DecStr(mxUuid[h])
MxHolders == {h \in MxHandles : mxPc[h] # "none" /\ mxLock.val = MxToken(h)}
MxPassStore(h) == STORE_SCRIPT(mxLock, mxValue, MxToken(h), DecStr(1)).ret = 1

MxOneHolder ==
    /\ Cardinality(MxHolders) <= 1
    /\ \A g, h \in MxHandles :
         (mxPc[g] = "guard" /\ mxPc[h] = "guard" /\ MxPassStore(g) /\ MxPassStore(h))
            => g = h
MxNoSteal ==
    \A h \in MxHandles :
        (MutexLock(h) /\ Exists(mxLock) /\ mxLock.val # MxToken(h))
            => (mxLock' = mxLock /\ mxPc'[h] = "locking")

(* C1: Mutex mutual exclusion.  In every reachable state at most one        *)
(* handle's token equals K:lock and at most one live guard passes the       *)
(* STORE_SCRIPT token check; a LOCK_SCRIPT invocation by token U while      *)
(* K:lock holds another token leaves K:lock as it is and grants nothing.    *)
C1_MutexMutualExclusion == []MxOneHolder /\ [][MxNoSteal]_vars

(* C1 witness: two guards are alive at once (the first lease ran out and    *)
(* the second handle took the lock) and only one of them passes the check.  *)
C1_Witness ==
    /\ mxPc[1] = "guard" /\ mxPc[2] = "guard"
    /\ MxPassStore(2) /\ ~MxPassStore(1)

(* C2: Guard.store(v) by token U writes K and sets the cache to v exactly   *)
(* when K:lock equals U as STORE_SCRIPT runs; otherwise it returns          *)
(* LockExpired(U) and leaves K and the handle's cache unchanged.            *)
C2_GuardStoreGated ==
    [][\A h \in MxHandles, v \in Values :
        GuardStore(h, v) =>
            IF mxLock.val = MxToken(h)
            THEN /\ mxValue' = DecStr(v)
                 /\ mxCache'[h] = Some(v)
                 /\ mxRes'[h] = "Ok"
            ELSE /\ mxRes'[h] = "LockExpired"
                 /\ mxValue' = mxValue
                 /\ mxCache' = mxCache]_vars

(* C2 witness: handle 1 stored 1 under its lease, lost the lease to handle  *)
(* 2, and its next store was refused while handle 2's store went through.   *)
C2_Witness ==
    /\ mxRes[1] = "LockExpired" /\ mxCache[1] = Some(1)
    /\ mxRes[2] = "Ok" /\ mxCache[2] = Some(2)
    /\ mxValue = DecStr(2)
    /\ mxLock.val = MxToken(2)

(* C14: guard drop is compare-and-delete.  Dropping a guard with token U    *)
(* deletes K:lock exactly when K:lock equals U; otherwise K:lock, with its  *)
(* remaining time, and every other guard's ability to store stay as they    *)
(* are; in both cases K is unchanged.                                       *)
C14_DropCompareAndDelete ==
    [][\A h \in MxHandles :
        GuardDrop(h) =>
            /\ mxValue' = mxValue
            /\ IF mxLock.val = MxToken(h)
               THEN mxLock' = AbsentKey
               ELSE /\ mxLock' = mxLock
                    /\ \A g \in MxHandles \ {h} :
                         mxPc[g] = "guard" =>
                            (MxPassStore(g)' <=> MxPassStore(g))]_vars

(* C14 witness: handle 2 holds the lock and has not expanded it, yet its    *)
(* lease has two seconds left: handle 1's outlived guard expanded it, and   *)
(* handle 1 has dropped that guard since, leaving K:lock with handle 2.    *)
C14_Witness ==
    /\ mxPc[1] = "idle" /\ mxPc[2] = "guard"
    /\ mxLock = SetEx(MxToken(2), MutexExpandTtl)
    /\ ~mxExpanded[2]
    /\ MxPassStore(2)

RwReaderLease == RwKeys(rwReaders) # {}
RwWriteHolders == {c \in RwClients : rwPc[c] \in {"writing", "wguard"}
                                      /\ rwLock.val = DecStr(rwUuid[c])}

(* C3: reader/writer exclusion.  While some K:reader_locks:R key exists, no  *)
(* write() acquires K:lock and no WriteGuard.store succeeds.                 *)
C3_ReaderExcludesWriter ==
    [][RwReaderLease =>
        \A c \in RwClients :
            /\ RwWriteTry(c, RwTimeout) => rwPc'[c] # "wguard"
            /\ \A v \in Values : RwWriteStore(c, v) => rwRes'[c] # "Ok"]_vars

(* C4: writer exclusivity.  At most one write token equals K:lock in every   *)
(* state, and a WRITER_LOCK invocation sets K:lock exactly when K:lock is    *)
(* absent as the script runs: an existing holder is never overwritten.       *)
RwOneWriter == Cardinality(RwWriteHolders) <= 1
RwWriterNoOverwrite ==
    \A c \in RwClients :
        RwWriteTry(c, RwTimeout) =>
            IF Exists(rwLock)
            THEN rwLock' = rwLock /\ rwPc'[c] = "writing"
            ELSE rwLock'.val = DecStr(rwUuid[c]) /\ rwPc'[c] = "wguard"
C4_WriterExclusive == []RwOneWriter /\ [][RwWriterNoOverwrite]_vars

(* C4 witness: one client holds the write guard with its token in K:lock     *)
(* while another client's write() has registered its intent and was refused. *)
C4_Witness ==
    /\ rwPc[1] = "wguard" /\ rwLock.val = DecStr(rwUuid[1])
    /\ rwPc[2] = "writing" /\ rwIntents[rwUuid[2]] > 0

(* C5: reader admission.  A READER_LOCK invocation grants the lease (creates *)
(* K:reader_locks:U) exactly when K:lock is absent and no                    *)
(* K:writer_waiting_list:* key exists; a refusal creates no reader key.      *)
C5_ReaderAdmission ==
    [][\A c \in RwClients :
        RwReadTry(c, RwTimeout) =>
            IF ~Exists(rwLock) /\ RwKeys(rwIntents) = {}
            THEN rwPc'[c] = "rguard" /\ rwReaders'[rwUuid[c]] > 0
            ELSE rwPc'[c] = "reading" /\ rwReaders' = rwReaders]_vars

RwLeaseValid(c) ==
    rwLock.val = DecStr(rwUuid[c]) \/ rwReaders[rwUuid[c]] > 0

(* C11: guarded load.  An acquire through a guard with token U returns the   *)
(* value of K only if K:lock equals U or K:reader_locks:U exists as         *)
(* LOAD_SCRIPT runs; when neither holds it returns no value.                *)
C11_LoadGated ==
    [][\A c \in RwClients :
        (RwReadAcquire(c) \/ RwWriteAcquire(c)) =>
            IF RwLeaseValid(c)
            THEN rwGot'[c] = (IF rwValue = Nil THEN -1 ELSE StrNum(rwValue))
            ELSE rwGot'[c] = -1]_vars

(* C12: WriteGuard.store(v) with token U writes K and sets the cache to v   *)
(* exactly when K:lock equals U as STORE_SCRIPT runs; otherwise it returns  *)
(* LockExpired(U) and leaves K and the cache of the handle unchanged.       *)
C12_WriteStoreGated ==
    [][\A c \in RwClients, v \in Values :
        RwWriteStore(c, v) =>
            IF rwLock.val = DecStr(rwUuid[c])
            THEN /\ rwValue' = DecStr(v)
                 /\ rwCache'[c] = Some(v)
                 /\ rwRes'[c] = "Ok"
            ELSE /\ rwRes'[c] = "LockExpired"
                 /\ rwValue' = rwValue
                 /\ rwCache' = rwCache]_vars

(* C12 witness: client 1 stored 1, its lease ran out and client 2 took the  *)
(* lock and stored 2; client 1's next store was refused.                    *)
C12_Witness ==
    /\ rwPc[1] = "wguard" /\ rwPc[2] = "wguard"
    /\ rwRes[1] = "LockExpired" /\ rwCache[1] = Some(1)
    /\ rwRes[2] = "Ok" /\ rwCache[2] = Some(2)
    /\ rwValue = DecStr(2)
    /\ rwLock.val = DecStr(rwUuid[2])

(* Writer w is inside write() or holds its guard, and its intent key       *)
(* K:writer_waiting_list:U is registered.                                   *)
RwWriterPending(w) ==
    /\ rwPc[w] \in {"writing", "wguard"}
    /\ rwIntents[rwUuid[w]] > 0

(* C13: writer priority.  While a writer W that has invoked write() has     *)
(* its intent key registered and has not yet dropped its guard, no read()   *)
(* invoked after W's write() is granted.  READER_LOCK and WRITER_LOCK never *)
(* read K:reader_locks:*, so the lease of the reader R1 of the scenario     *)
(* has no part in any of these steps and is left out of the condition.      *)
C13_WriterPriority ==
    [][\A w \in RwClients, r \in RwClients :
        (RwWriterPending(w) /\ rwUuid[w] < rwUuid[r] /\ RwReadTry(r, RwTimeout))
            => rwPc'[r] = "reading"]_vars

(* C16: a leaked guard does not block the lock for ever.  A read() or a    *)
(* write() that has been invoked, and so one that is invoked after a guard  *)
(* was never dropped, eventually returns its guard.                         *)
C16_CallsReturn ==
    \A c \in RwClients :
        /\ (rwPc[c] = "writing") ~> (rwPc[c] = "wguard")
        /\ (rwPc[c] = "reading") ~> (rwPc[c] = "rguard")

(* ----------------------------------------------------- Barrier: claims *)
BaLeaders == {p \in BaParties : baRes[p] = "leader"}
BaFollowers == {p \in BaParties : baRes[p] = "follower"}

(* C6: leader uniqueness.  In a generation of NumParties handles, at most   *)
(* one wait() has returned is_leader = true in every reachable state, and   *)
(* once all NumParties calls have returned exactly one returned true and    *)
(* the other NumParties - 1 returned false.                                 *)
C6_OneLeader ==
    /\ Cardinality(BaLeaders) <= 1
    /\ (\A p \in BaParties : baRes[p] # "none") =>
          /\ Cardinality(BaLeaders) = 1
          /\ Cardinality(BaFollowers) = NumParties - 1

(* C6 witness: every party has returned, after a second went by and the     *)
(* leader dropped its handle while another party was still polling.         *)
C6_Witness ==
    /\ \A p \in BaParties : baRes[p] # "none"
    /\ \E p \in BaLeaders : baPc[p] = "dropped"
    /\ \E p \in BaFollowers : baPc[p] = "returned"
    /\ baLeader.ttl = 1

(* C7: rendezvous.  No wait() has returned unless NumParties K:waiting:*    *)
(* keys were present at once, and a WAITING_SCRIPT call that finds no       *)
(* leader returns a result other than waiting only when NumParties keys     *)
(* whose TTL has not run out are present as it runs.                        *)
BaReturnedAfterQuorum == \A p \in BaParties : baRes[p] # "none" => baQuorum
BaQuorumCounted ==
    \A p \in BaParties :
        (BarrierWait(p) /\ ~Exists(baLeader) /\ baPc'[p] = "returned") =>
            Cardinality({u \in BaTokens : u = baUuid[p] \/ baWaiting[u] > 0})
                >= NumParties
C7_Rendezvous == []BaReturnedAfterQuorum /\ [][BaQuorumCounted]_vars

(* C7 witness: every party has called wait(), but the key of one of them   *)
(* ran out before the last one arrived: no quorum, and all are waiting.     *)
C7_Witness ==
    /\ \A p \in BaParties : baPc[p] = "waiting"
    /\ \E p \in BaParties : baWaiting[baUuid[p]] = 0
    /\ Cardinality(BaKeys(baWaiting)) = NumParties - 1
    /\ ~baQuorum

(* C17: progress.  Once each of the NumParties parties is inside wait() or  *)
(* has returned from it, and the parties inside keep polling, every party   *)
(* eventually returns from wait(), also one that polls only after the       *)
(* leader dropped its handle or after K:leader ran out.                     *)
BaAllCalled == \A p \in BaParties : baPc[p] = "waiting" \/ baRes[p] # "none"
C17_Progress == BaAllCalled ~> (\A p \in BaParties : baRes[p] # "none")

(* C18: reuse across handles.  Once all NumParties handles of a generation  *)
(* are dropped, no K:waiting:* key, no K:leader and no K:uuids is left,     *)
(* and in the generation of new barriers made after that no wait() returns  *)
(* before NumParties waiting keys were present at once, at most one wait()  *)
(* returns as leader, and when all have returned exactly one has.           *)
BaAllDropped == \A p \in BaParties : baPc[p] = "dropped"
BaNoKeyLeft ==
    /\ BaKeys(baWaiting) = {}
    /\ baLeader = AbsentKey
    /\ baUuids = 0
C18_ReuseAcrossHandles ==
    /\ BaAllDropped => BaNoKeyLeft
    /\ baGen > 1 =>
          /\ \A p \in BaParties : baRes[p] # "none" => baQuorum
          /\ Cardinality(BaLeaders) <= 1
          /\ (\A p \in BaParties : baRes[p] # "none") =>
                /\ Cardinality(BaLeaders) = 1
                /\ Cardinality(BaFollowers) = NumParties - 1

(* C18 witness: the second generation of handles has completed its round,   *)
(* with one leader, and all its handles are dropped again.                  *)
C18_Witness ==
    /\ baGen = 2
    /\ BaAllDropped
    /\ \A p \in BaParties : baRes[p] # "none"
    /\ Cardinality(BaLeaders) = 1

(* C19: reuse of the same handles.  A second wait() on a handle returns     *)
(* only when every one of the NumParties handles has called wait() a        *)
(* second time.                                                             *)
BaCalledAgain(q) == baPc[q] \in {"waiting2", "returned2"}
C19_SecondWaitBlocks ==
    [][\A p \in BaParties :
          (BarrierWaitAgain(p) /\ baPc'[p] = "returned2") =>
              \A q \in BaParties : BaCalledAgain(q)']_vars

(* ----------------------------------------------------- SetLoad: claims *)
SlOrderNum == IF slOrder = Nil THEN 0 ELSE StrNum(slOrder)

(* A step that is store(v) by handle h, whatever the counter.               *)
SlStoreStep(h, v) == SetLoadStore(h, v, slCounter[h] + 1)

(* C8: the ordering number is monotone.  Over every step of store,          *)
(* store_blocking and load by the handles, with counters of one, two and    *)
(* three decimal digits compared as SET_LOAD_SCRIPT compares them, the      *)
(* numeric value of K:order does not decrease (an absent K:order counts     *)
(* as 0).                                                                   *)
C8_OrderMonotone == [][SlOrderNum' >= SlOrderNum]_vars

(* K:order has two digits and a store with a three-digit counter was        *)
(* refused.                                                                 *)
C8_Witness ==
    /\ SlOrderNum = 99
    /\ \E h \in SlHandles : slCounter[h] = 100 /\ slRes[h] = "OrderError"

(* C9 as stated: a store by a writer whose counter, once incremented, is    *)
(* not greater than the current K:order returns OrderError and changes      *)
(* neither K nor K:order.                                                   *)
C9_LateWriteFails ==
    [][\A h \in SlHandles, v \in Values :
        (SlStoreStep(h, v) /\ slOrder # Nil /\ slCounter[h] + 1 <= SlOrderNum)
        => /\ slRes'[h] = "OrderError"
           /\ slValue' = slValue
           /\ slOrder' = slOrder]_vars

(* C9, amended: such a store changes neither K nor K:order, and it returns  *)
(* OrderError unless its counter equals K:order and its value equals the    *)
(* stored K; in that one case it returns Ok and sets the cache.             *)
C9_LateWriteFailsUnlessSame ==
    [][\A h \in SlHandles, v \in Values :
        (SlStoreStep(h, v) /\ slOrder # Nil /\ slCounter[h] + 1 <= SlOrderNum)
        => /\ slValue' = slValue
           /\ slOrder' = slOrder
           /\ IF slCounter[h] + 1 = SlOrderNum /\ slValue = DecStr(v)
              THEN slRes'[h] = "Ok" /\ slCache'[h] = Some(v)
              ELSE slRes'[h] = "OrderError" /\ slCache'[h] = slCache[h]]_vars

(* A writer was overtaken, its store was refused with OrderError and its    *)
(* counter is still below K:order.                                          *)
C9_Witness ==
    \E h \in SlHandles :
        /\ slRes[h] = "OrderError"
        /\ slCounter[h] < SlOrderNum
        /\ \E g \in SlHandles \ {h} : slCounter[g] = SlOrderNum

(* C10: store(v) increments the counter by one; it returns Ok and sets the  *)
(* cache to v exactly when the reply of the script, which is the pair       *)
(* (K, K:order) the script leaves behind, equals (v, c) for the new         *)
(* counter c; otherwise it returns OrderError and the cache is unchanged.   *)
C10_StoreOkIffWon ==
    [][\A h \in SlHandles, v \in Values :
        SlStoreStep(h, v)
        => /\ slCounter'[h] = slCounter[h] + 1
           /\ IF slValue' = DecStr(v) /\ slOrder' = DecStr(slCounter'[h])
              THEN slRes'[h] = "Ok" /\ slCache'[h] = Some(v)
              ELSE slRes'[h] = "OrderError" /\ slCache'[h] = slCache[h]]_vars
(* C20: store_blocking terminates when it is not overtaken.  A retry that   *)
(* runs with the counter of the conflict, the returned order plus one,      *)
(* while K:order is still the returned order, wins: the server then holds   *)
(* the value under K with K:order = the counter, the call returns and the   *)
(* cache is the value.  This for every value of K:order.                    *)
SlNotOvertaken(h) == slOrder # Nil /\ slCounter[h] = StrNum(slOrder) + 1
SlRetryResult(h) ==
    store_redis(slOrder, slValue, slCounter[h], DecStr(slVal[h]))
SlRetryPending ==
    \A h \in DigitsHandles :
        (slPc[h] = "blocking" /\ SlNotOvertaken(h)) =>
            /\ ~MustRetry(slCounter[h], SlRetryResult(h).ret, DecStr(slVal[h]))
            /\ SlRetryResult(h).order = DecStr(slCounter[h])
SlRetryStep ==
    \A h \in DigitsHandles :
        (SetLoadRetry(h, MaxDigitsCounter) /\ SlNotOvertaken(h)) =>
            /\ slPc'[h] = "idle"
            /\ slValue' = DecStr(slVal[h])
            /\ slOrder' = DecStr(slCounter[h])
            /\ slCache'[h] = Some(slVal[h])
C20_RetryWins == []SlRetryPending /\ [][SlRetryStep]_vars

(* C30: expand extends the lease at most once per guard.  The first call   *)
(* sets the time to live of K:lock to MutexExpandTtl seconds and sets the   *)
(* flag of the guard; a later call on the same guard changes nothing at     *)
(* the server, and the flag stays set as long as the guard lives.           *)
MxExpandStep(h) ==
    GuardExpand(h) =>
        /\ mxExpanded'[h]
        /\ IF mxExpanded[h]
           THEN mxLock' = mxLock
           ELSE mxLock' = IF Exists(mxLock)
                          THEN SetEx(mxLock.val, MutexExpandTtl)
                          ELSE mxLock
MxFlagStays(h) ==
    (mxExpanded[h] /\ mxPc[h] = "guard" /\ mxPc'[h] = "guard") => mxExpanded'[h]
C30_ExpandOnce == [][\A h \in MxHandles : MxExpandStep(h) /\ MxFlagStays(h)]_vars

(* C30 witness: the guard of handle 1 holds the lock, has expanded, and a   *)
(* second of the extension has gone by: one more EXPIRE would prolong it.   *)
C30_Witness ==
    /\ mxPc[1] = "guard" /\ mxExpanded[1]
    /\ mxLock = SetEx(MxToken(1), MutexExpandTtl - 1)

(* ----------------------------------------------------- Generic: claims *)
(* C21: with_value_default seeds the key only if it is absent.  No step of  *)
(* with_value_default changes a value that is present at the server, also   *)
(* with other handles storing on the key; and when the key is present the   *)
(* handle caches the value of the server and not its argument.              *)
GvDefaultSeeds ==
    \A h \in GvCells :
        GenericDefaultStore(h) =>
            \/ gvStore[gvKey[h]] = Nil
            \/ gvStore'[gvKey[h]] = gvStore[gvKey[h]]
GvDefaultLoads ==
    \A h \in GvCells, k \in GvKeys, v \in Values :
        (GenericWithValueDefault(h, k, v) /\ gvStore[k] # Nil) =>
            /\ gvStore' = gvStore
            /\ gvCache'[h] = Some(StrNum(gvStore[k]))
C21_DefaultNeverOverwrites == [][GvDefaultSeeds /\ GvDefaultLoads]_vars

(* C22: after store(v) the server holds the serialization of v under the   *)
(* key and the cache of the handle is Some(v); a store(v) made in that      *)
(* state changes neither the keys nor the cache.                            *)
GvStored(h, v) ==
    /\ gvStore[gvKey[h]] = DecStr(v)
    /\ GenericTryGet(gvStore, gvKey[h]) = Some(v)
    /\ gvCache[h] = Some(v)
C22_StoreSetsBoth ==
    [][\A h \in GvCells, v \in Values :
          GenericStore(h, v) =>
              /\ GvStored(h, v)'
              /\ GvStored(h, v) => (gvStore' = gvStore /\ gvCache' = gvCache)]_vars

(* C22 witness: handle 1 has stored 2 over the 1 that handle 2 had stored   *)
(* under the same key.                                                      *)
C22_Witness ==
    /\ gvPc[1] = "live" /\ gvPc[2] = "live" /\ gvKey[1] = gvKey[2]
    /\ gvRes[1] = "Ok" /\ GvStored(1, 2)
    /\ gvRes[2] = "Ok" /\ gvCache[2] = Some(1)

(* C23: round trip between handles.  When the key holds what store(v) or    *)
(* with_value(v) wrote, with_load of a new handle and acquire of an         *)
(* existing one make the cache Some(v); a store or with_value of one        *)
(* handle leaves the cache of every other handle as it is.                  *)
GvLoadGetsStored ==
    \A b \in GvCells, k \in GvKeys, v \in Values :
        /\ (GenericWithLoad(b, k) /\ gvStore[k] = DecStr(v)) =>
              gvCache'[b] = Some(v)
        /\ (GenericAcquire(b) /\ gvKey[b] = k /\ gvStore[k] = DecStr(v)) =>
              gvCache'[b] = Some(v)
GvStoreIsLocal ==
    \A a \in GvCells, b \in GvCells, k \in GvKeys, v \in Values :
        (a # b /\ (GenericStore(a, v) \/ GenericWithValue(a, k, v))) =>
            gvCache'[b] = gvCache[b]
C23_RoundTrip == [][GvLoadGetsStored /\ GvStoreIsLocal]_vars

(* C23 witness: handle 2 was made by with_load (it never stored) and        *)
(* caches the 2 that handle 1 stored under their key.                       *)
C23_Witness ==
    /\ gvPc[1] = "live" /\ gvPc[2] = "live" /\ gvKey[1] = gvKey[2]
    /\ gvRes[1] = "Ok" /\ GvStored(1, 2)
    /\ gvRes[2] = "none" /\ gvCache[2] = Some(2)

(* C24: acquire on a key that has no entry at the server fails, it returns  *)
(* no value (the unwrap of None panics), and the cache is None afterwards.  *)
C24_AcquireAbsent ==
    [][\A h \in GvCells :
          (GenericAcquire(h) /\ gvStore[gvKey[h]] = Nil) =>
              /\ gvRes'[h] = "panic"
              /\ gvCache'[h] = None]_vars

(* C24 witness: the acquire of handle 1 failed after handle 2 took its      *)
(* value out of the same key with into_inner.                               *)
C24_Witness ==
    /\ gvPc[1] = "live" /\ gvRes[1] = "panic" /\ gvCache[1] = None
    /\ gvPc[2] = "consumed" /\ gvRet[2] # None /\ gvKey[1] = gvKey[2]

(* C25: into_inner deletes the key and returns the cached value of the      *)
(* handle; with an empty cache it fails (the expect panics) and the key is  *)
(* deleted all the same.                                                    *)
C25_IntoInner ==
    [][\A h \in GvCells :
          GenericIntoInner(h) =>
              /\ gvStore'[gvKey[h]] = Nil
              /\ gvCache[h] # None => (gvRes'[h] = "Ok" /\ gvRet'[h] = gvCache[h])
              /\ gvCache[h] = None => gvRes'[h] = "panic"]_vars

(* C25 witness: into_inner of handle 1 returned a value, into_inner of      *)
(* handle 2 failed, and no key is left.                                     *)
C25_Witness ==
    /\ gvPc[1] = "consumed" /\ gvRes[1] = "Ok" /\ gvRet[1] # None
    /\ gvPc[2] = "consumed" /\ gvRes[2] = "panic" /\ gvRet[2] = None
    /\ \A k \in GvKeys : gvStore[k] = Nil

(* C26: lhs op rhs, with a value in the cache of rhs, stores                *)
(* f(lhs cache, rhs value), or the rhs value when the cache of lhs is       *)
(* empty, under the key of lhs and in the cache of lhs, and deletes the key *)
(* of rhs: with_load on the key of rhs then yields an empty cache.          *)
GvOpResult(l, r, op) ==
    IF gvCache[l] = None THEN gvCache[r][1]
    ELSE GvFunc(op, gvCache[l][1], gvCache[r][1])
GvOpStores(l, r, op) ==
    /\ gvStore'[gvKey[l]] = DecStr(GvOpResult(l, r, op))
    /\ gvCache'[l] = Some(GvOpResult(l, r, op))
GvRhsGone(r) == GenericTryGet(gvStore', gvKey[r]) = None
C26_OperatorConsumesRhs ==
    [][\A l \in GvCells, r \in GvCells, op \in GvOps :
          (GenericOp(l, r, op) /\ gvCache[r] # None) =>
              (GvOpStores(l, r, op) /\ GvRhsGone(r))]_vars

(* C26 as amended: the key of rhs is gone when it is not the key of lhs.    *)
C26_OperatorConsumesOtherKey ==
    [][\A l \in GvCells, r \in GvCells, op \in GvOps :
          (GenericOp(l, r, op) /\ gvCache[r] # None) =>
              /\ GvOpStores(l, r, op)
              /\ gvKey[l] # gvKey[r] => GvRhsGone(r)]_vars

(* C26 witness: 2 + 2 under key 1, the right-hand cell was on key 2.        *)
C26_Witness ==
    /\ gvPc[1] = "live" /\ gvKey[1] = 1 /\ gvCache[1] = Some(4)
    /\ gvStore[1] = DecStr(4)
    /\ gvPc[2] = "consumed" /\ gvKey[2] = 2 /\ gvRet[2] = Some(2)
    /\ gvStore[2] = Nil

(* -------------------------------------------------------- List: claims *)
(* C27: mirror invariant.  With one ListCache handle, no other writer and   *)
(* no failing call, after any sequence of push_back, push_front, pop_back,  *)
(* pop_front and insert the cache holds the elements of the list at the     *)
(* server, in the same order.                                               *)
C27_Mirror == lcCache[LcHandle] = LcDecode(liServer)

(* C28: server first.  A mutation of a ListCache whose server call fails    *)
(* leaves the cache as it was.                                              *)
LcFailedCall ==
    \/ \E v \in Values : ListCachePushBack(LcHandle, v, FALSE)
    \/ \E v \in Values : ListCachePushFront(LcHandle, v, FALSE)
    \/ liServer # << >> /\ ListCachePopBack(LcHandle, FALSE)
    \/ liServer # << >> /\ ListCachePopFront(LcHandle, FALSE)
    \/ \E i \in 0..MaxListLen, v \in Values :
          i <= Len(lcCache[LcHandle]) /\ ListCacheInsert(LcHandle, i, v, FALSE)
C28_ServerFirst == [][LcFailedCall => lcCache' = lcCache]_vars

(* C29: the List operations of all handles act on one double-ended queue.   *)
(* push_back and push_front add the value at their end, pop_front and       *)
(* pop_back remove and return the element at their end, or return None on   *)
(* the empty list, len returns the number of elements and clear leaves the  *)
(* empty list.                                                              *)
LiQueue == LcDecode(liServer)
LiPushes ==
    \A h \in LiHandles, v \in Values :
        /\ ListPushBack(h, v) => LiQueue' = Append(LiQueue, v)
        /\ ListPushFront(h, v) => LiQueue' = <<v>> \o LiQueue
LiPops ==
    \A h \in LiHandles :
        /\ ListPopFront(h) =>
              IF LiQueue = << >>
              THEN liRet'[h].val = None /\ LiQueue' = << >>
              ELSE liRet'[h].val = Some(Head(LiQueue)) /\ LiQueue' = Tail(LiQueue)
        /\ ListPopBack(h) =>
              IF LiQueue = << >>
              THEN liRet'[h].val = None /\ LiQueue' = << >>
              ELSE /\ liRet'[h].val = Some(LiQueue[Len(LiQueue)])
                   /\ LiQueue' = SubSeq(LiQueue, 1, Len(LiQueue) - 1)
LiLenClear ==
    \A h \in LiHandles :
        /\ ListLen(h) => (liRet'[h].val = Some(Len(LiQueue)) /\ LiQueue' = LiQueue)
        /\ ListClear(h) => LiQueue' = << >>
C29_SharedDeque == [][LiPushes /\ LiPops /\ LiLenClear]_vars

(* C29 witness: after push_back of 1 and of 2, handle 2 has popped the 1    *)
(* from the front and handle 1 then found the length 1.                     *)
C29_Witness ==
    /\ liRet[2] = [op |-> "pop", val |-> Some(1)]
    /\ liRet[1] = [op |-> "len", val |-> Some(1)]
    /\ LiQueue = <<2>>

(* ------------------------------------------------------------------ C31 *)
(* One iteration of read(), whatever third argument the call sends.         *)
C31_ReadTry(c) == \E t \in {ExecuteScriptArg3, RwTimeout} : RwReadTry(c, t)
RwGuarded == {c \in RwClients : rwPc[c] \in {"rguard", "wguard"}}

(* C31: many read leases at once.  A read() that finds K:lock absent and    *)
(* no writer intent is granted, however many read leases the others hold:   *)
(* it leaves with the guard and its own key K:reader_locks:U, the other     *)
(* reader keys are untouched, and the tokens of the guards are distinct.    *)
C31_ManyReaders ==
    [][\A c \in RwClients :
         (C31_ReadTry(c) /\ ~Exists(rwLock) /\ RwKeys(rwIntents) = {}) =>
            /\ rwPc'[c] = "rguard"
            /\ rwReaders'[rwUuid[c]] > 0
            /\ \A u \in RwTokens \ {rwUuid[c]} : rwReaders'[u] = rwReaders[u]
            /\ \A d \in RwGuarded \ {c} : rwUuid[d] # rwUuid[c]]_vars

(* ------------------------------------------------------------------ C32 *)
(* The guard is forgotten (mem::forget): Drop for Guard does not run, the   *)
(* borrow of the Mutex ends and the handle may call lock() again while      *)
(* K:lock still holds its token.                                            *)
GuardForget(h) ==
    /\ mxPc[h] = "guard"
    /\ mxPc' = [mxPc EXCEPT ![h] = "idle"]
    /\ UNCHANGED <<mxUuids, mxLock, mxValue, mxUuid, mxCache, mxExpanded, mxRes>>
    /\ UNCHANGED mxOthers

(* The lock protocol alone, with guards that are dropped or forgotten.      *)
MutexForgetNext ==
    \/ \E h \in MxHandles : MutexNew(h)
    \/ \E h \in MxHandles : MutexLock(h)
    \/ \E h \in MxHandles : GuardExpand(h)
    \/ \E h \in MxHandles : GuardDrop(h)
    \/ \E h \in MxHandles : GuardForget(h)
    \/ MutexTick

SpecMutexForget == Init /\ [][MutexForgetNext]_vars

MxHeldBy(h) == mxLock.val = DecStr(mxUuid[h])

(* C32: the lease state machine of K:lock.  The holder changes only from    *)
(* Unlocked to Held(U) by a successful lock() of the handle with token U,   *)
(* and from Held(U) to Unlocked by the drop of U's guard or by expiry; it   *)
(* never changes from one token to another.  A lock() of the handle whose   *)
(* token K:lock holds succeeds and renews the time to live, nothing else.   *)
C32_LeaseMachine ==
    [][/\ (mxLock'.val # mxLock.val) =>
            \/ /\ mxLock.val = Nil
               /\ \E h \in MxHandles :
                    MutexLock(h) /\ MxHeldBy(h)' /\ mxPc'[h] = "guard"
            \/ /\ mxLock'.val = Nil
               /\ \/ \E h \in MxHandles : GuardDrop(h) /\ MxHeldBy(h)
                  \/ MutexTick /\ mxLock.ttl = 1
       /\ \A h \in MxHandles :
            (MutexLock(h) /\ MxHeldBy(h)) =>
                /\ mxPc'[h] = "guard"
                /\ mxLock' = [val |-> mxLock.val, ttl |-> MutexLockTtl]
                /\ mxValue' = mxValue]_vars

(* C32 witness: a handle outside lock() whose token is in K:lock, with the  *)
(* time to live of an expanded lease, while the other handle spins: the     *)
(* state from which the holder locks again.                                 *)
C32_Witness ==
    \E h \in MxHandles :
        /\ mxPc[h] = "idle" /\ MxHeldBy(h) /\ mxLock.ttl = MutexExpandTtl
        /\ \E g \in MxHandles \ {h} : mxPc[g] = "locking"

(* ------------------------------------------------------------------ C33 *)
(* C33: Guard::expand changes the time to live of K:lock only while K:lock  *)
(* holds the guard's own token: when another token holds K:lock, expand     *)
(* leaves K:lock, its time to live included, as it is.                      *)
C33_ExpandOwnLease ==
    [][\A h \in MxHandles :
         (GuardExpand(h) /\ mxLock.val # DecStr(mxUuid[h])) =>
            mxLock' = mxLock]_vars

(* ------------------------------------------------------------------ C34 *)
BaLive == {p \in BaParties : baPc[p] \notin {"none", "dropped"}}

(* C34: the tokens drawn from K:uuids are unique among the live handles on  *)
(* K: no two handles that exist at the same time hold the same token, also  *)
(* when another handle was dropped between their constructions.             *)
C34_TokensUnique ==
    \A p, q \in BaLive : p # q => baUuid[p] # baUuid[q]

(* ------------------------------------------------------------------ C37 *)
(* C37: dropping the handle with token U deletes K:waiting:U and no other   *)
(* waiting key; K:leader and K:uuids are deleted exactly when no            *)
(* K:waiting:* key remains after that, and are left as they are while       *)
(* another waiting key exists.                                              *)
C37_DropReset ==
    [][\A p \in BaParties :
         BarrierDrop(p) =>
            /\ baWaiting'[baUuid[p]] = 0
            /\ \A u \in BaTokens \ {baUuid[p]} : baWaiting'[u] = baWaiting[u]
            /\ IF BaKeys(baWaiting) \ {baUuid[p]} = {}
               THEN baLeader' = AbsentKey /\ baUuids' = 0
               ELSE baLeader' = baLeader /\ baUuids' = baUuids]_vars

(* C37 witness: a handle that came back from wait() was dropped, and        *)
(* K:leader is still there beside the waiting key of another party.         *)
C37_Witness ==
    \E p \in BaParties :
        /\ baPc[p] = "dropped" /\ baRes[p] \in {"leader", "follower"}
        /\ baWaiting[baUuid[p]] = 0
        /\ Exists(baLeader) /\ BaKeys(baWaiting) # {}

(* ------------------------------------------------------------------ C38 *)
(* Barriers of the sizes 1 .. NumParties - 1.                               *)
BarrierSizes == 1..(NumParties - 1)

(* Barrier::new(num, key, client) of one of num parties that use the key    *)
(* with the same num.                                                       *)
BarrierNewSized(p, num) ==
    /\ baPc[p] = "none"
    /\ p <= num
    /\ \A q \in BaParties : baNum[q] \in {0, num}
    /\ LET r == BARRIER_UUID_SCRIPT(baUuids) IN
        /\ baUuids' = r.uuids
        /\ baUuid' = [baUuid EXCEPT ![p] = r.ret]
    /\ baPc' = [baPc EXCEPT ![p] = "created"]
    /\ baNum' = [baNum EXCEPT ![p] = num]
    /\ UNCHANGED <<baLeader, baWaiting, baRes, baQuorum, baGen>>
    /\ UNCHANGED baOthers

BarrierSizedNext ==
    \/ \E p \in BaParties, num \in BarrierSizes : BarrierNewSized(p, num)
    \/ \E p \in BaParties : BarrierWait(p)
    \/ \E p \in BaParties : BarrierDrop(p)
    \/ BarrierTick

SpecBarrierSized == Init /\ [][BarrierSizedNext]_vars

(* The waiting keys one call of the script counts: those present, with the  *)
(* caller's own.                                                            *)
BaObserved(p) == ScanCount([baWaiting EXCEPT ![baUuid[p]] = BarrierTimeout])

(* C38: the leader is the party whose call of WAITING_SCRIPT first sees     *)
(* the quorum of num waiting keys with no K:leader: such a call returns     *)
(* is_leader = true and writes the caller's token to K:leader, a call that  *)
(* sees fewer keys keeps waiting, and a call that finds the token of        *)
(* another party in K:leader returns is_leader = false.  With num = 1 the   *)
(* only party leads at its first call; with num = 2 the party that arrives  *)
(* second leads and the party that was waiting returns false.               *)
C38_LeaderSeesQuorum ==
    [][\A p \in BaParties :
         BarrierWait(p) =>
            /\ ~Exists(baLeader) =>
                 IF BaObserved(p) >= baNum[p]
                 THEN /\ baPc'[p] = "returned" /\ baRes'[p] = "leader"
                      /\ baLeader'.val = DecStr(baUuid[p])
                 ELSE baPc'[p] = "waiting" /\ ~Exists(baLeader')
            /\ (Exists(baLeader) /\ baLeader.val # DecStr(baUuid[p])) =>
                 /\ baPc'[p] = "returned" /\ baRes'[p] = "follower"
                 /\ baLeader' = baLeader
            /\ (baNum[p] = 1 /\ ~Exists(baLeader)) => baRes'[p] = "leader"
            /\ (baNum[p] = 2 /\ ~Exists(baLeader)) =>
                 (baRes'[p] = "leader" <=>
                    \E u \in BaKeys(baWaiting) : u # baUuid[p])]_vars

(* C38 witness: num = 2; one party has returned as the leader, with its     *)
(* token in K:leader, and the other party has returned false.               *)
C38_Witness ==
    \E p, q \in BaParties :
        /\ baNum[p] = 2 /\ baNum[q] = 2
        /\ baPc[p] = "returned" /\ baRes[p] = "follower"
        /\ baPc[q] = "returned" /\ baRes[q] = "leader"
        /\ baLeader.val = DecStr(baUuid[q])

(* ------------------------------------------------------------------ C35 *)
(* Every call of WRITER_LOCK, granted or not, leaves the caller's intent    *)
(* key with the full time to live.                                          *)
C35_IntentRefreshed ==
    \A c \in RwClients :
        RwWriteTry(c, RwTimeout) => rwIntents'[rwUuid[c]] = RwTimeout

(* An intent key goes away by the passage of time or by the drop of its     *)
(* writer's guard only.                                                     *)
C35_IntentKept ==
    \A u \in RwTokens :
        (rwIntents[u] > 0 /\ rwIntents'[u] = 0) =>
            \/ RwTick /\ rwIntents[u] = 1
            \/ \E c \in RwClients : rwUuid[c] = u /\ RwWriteDrop(c)

(* No read() is granted while the intent key of a writer that is inside     *)
(* write() or holds its guard is present.                                   *)
C35_NoReaderMeanwhile ==
    \A w \in RwClients, r \in RwClients :
        (/\ rwPc[w] \in {"writing", "wguard"}
         /\ rwIntents[rwUuid[w]] > 0
         /\ RwReadTry(r, RwTimeout)) => rwPc'[r] # "rguard"

(* C35: the writer's intent is kept alive while it spins.  Every call of    *)
(* WRITER_LOCK re-creates K:writer_waiting_list:U with a fresh time to      *)
(* live; from the writer's first attempt until its guard is dropped the     *)
(* intent is present unless its time to live runs out, and no reader is     *)
(* admitted while it is present.                                            *)
C35_IntentAlive ==
    [][C35_IntentRefreshed /\ C35_IntentKept /\ C35_NoReaderMeanwhile]_vars

(* ------------------------------------------------------------------ C36 *)
(* C36: a guard's drop touches its own keys only.  The drop of the write    *)
(* guard with token U deletes K:writer_waiting_list:U, and K:lock only when *)
(* it holds U; the drop of the read guard with token U deletes              *)
(* K:reader_locks:U.  Every other intent and reader key, a K:lock of        *)
(* another token, and K stay as they are.                                   *)
C36_DropOwnKeys ==
    [][\A c \in RwClients :
         /\ RwWriteDrop(c) =>
              /\ rwIntents' = [rwIntents EXCEPT ![rwUuid[c]] = 0]
              /\ rwLock' = IF rwLock.val = DecStr(rwUuid[c])
                           THEN AbsentKey ELSE rwLock
              /\ rwReaders' = rwReaders
              /\ rwValue' = rwValue
         /\ RwReadDrop(c) =>
              /\ rwReaders' = [rwReaders EXCEPT ![rwUuid[c]] = 0]
              /\ rwIntents' = rwIntents
              /\ rwLock' = rwLock
              /\ rwValue' = rwValue]_vars

(* C36 witness: client 1 still has the write guard of a lease that ran      *)
(* out, K:lock holds the token of client 2's write guard and K a value:     *)
(* the state in which the drop of client 1 has to leave K:lock alone.       *)
C36_Witness ==
    /\ rwPc[1] = "wguard" /\ rwPc[2] = "wguard"
    /\ rwLock.val = DecStr(rwUuid[2])
    /\ rwIntents[rwUuid[2]] > 0
    /\ rwValue # Nil

(* ------------------------------------------------------------------ C39 *)
(* What one call of SET_LOAD_SCRIPT with the ordering number c and the      *)
(* value v is stated to do.                                                 *)
C39_Effect(c, v) ==
    IF slOrder = Nil \/ SlOrderNum < c
    THEN slOrder' = DecStr(c) /\ slValue' = DecStr(v)
    ELSE slOrder' = slOrder /\ slValue' = slValue
C39_Caps == {MaxCounter, MaxDigitsCounter}

(* C39: SET_LOAD_SCRIPT called with the ordering number c and the value v   *)
(* writes when K:order is absent or numerically smaller than c, and then    *)
(* sets K:order to c and K to v in one step; otherwise K and K:order stay   *)
(* as they are.                                                             *)
C39_ConditionalWrite ==
    [][\A h \in SlHandles, v \in Values :
         /\ SlStoreStep(h, v) => C39_Effect(slCounter[h] + 1, v)
         /\ (\E cap \in C39_Caps : SetLoadStoreBlocking(h, v, cap)) =>
                C39_Effect(slCounter[h], v)]_vars

(* The half of it that holds: a call changes K or K:order only when         *)
(* K:order is absent or numerically smaller than c, and then to c and v.    *)
C39_OnlyIf(c, v) ==
    (slOrder' # slOrder \/ slValue' # slValue) =>
        /\ slOrder = Nil \/ SlOrderNum < c
        /\ slOrder' = DecStr(c) /\ slValue' = DecStr(v)
C39_WritesOnlyForward ==
    [][\A h \in SlHandles, v \in Values :
         /\ SlStoreStep(h, v) => C39_OnlyIf(slCounter[h] + 1, v)
         /\ (\E cap \in C39_Caps : SetLoadStoreBlocking(h, v, cap)) =>
                C39_OnlyIf(slCounter[h], v)]_vars

(* ------------------------------------------------------------------ C40 *)
(* ListCache handles on one key, every server call carried out; no insert.  *)
ListCacheSharedNext ==
    \/ \E h \in LiHandles : ListCachePull(h, TRUE)
    \/ \E h \in LiHandles, v \in Values : ListCachePushBack(h, v, TRUE)
    \/ \E h \in LiHandles, v \in Values : ListCachePushFront(h, v, TRUE)
    \/ \E h \in LiHandles : ListCachePopBack(h, TRUE)
    \/ \E h \in LiHandles : ListCachePopFront(h, TRUE)

SpecListCacheShared == Init /\ [][ListCacheSharedNext]_vars

(* C40: pop_front and pop_back of the cached list return the element the    *)
(* same call removed from the server list: with several handles on the      *)
(* key, never another element, and none when the server list was empty.     *)
C40_PopReturnsRemoved ==
    [][\A h \in LiHandles :
         /\ ListCachePopFront(h, TRUE) =>
                liRet'[h].val = VecFront(LcDecode(liServer))
         /\ ListCachePopBack(h, TRUE) =>
                liRet'[h].val = VecBack(LcDecode(liServer))]_vars

====
